---------------------------- MODULE Spec2Model ----------------------------
(***************************************************************************)
(* Playback controller of the music player, in its two variants:           *)
(*   - the pool-based App (src/unnamed/part_000, lines 743-1372), whose    *)
(*     handlePlaySong awaits getStreamUrl(title, artist);                  *)
(*   - the id-keyed App (src/unnamed/part_000, lines 70-688), whose        *)
(*     auto-resolve effect calls getStreamUrl(id).                         *)
(* A behaviour runs one of the two variants, chosen in Init.               *)
(*                                                                         *)
(* React state is modelled by one variable per useState cell.  State       *)
(* updates made by one handler (or one continuation after an await) are    *)
(* committed together, and the effects whose dependencies changed run in   *)
(* that commit (operator Commit_pool / Commit_id).  Dependencies are       *)
(* compared by object identity, so every action says which cells received  *)
(* a new object.  A closure created by an effect keeps the state of the    *)
(* render it was created in (capturedIsPlaying).                           *)
(***************************************************************************)
EXTENDS Integers, Sequences, FiniteSets, Bags, TLC

\* ------------------------------------------------------------------ bounds
MaxQueue == 3       \* longest queue (songs) explored
MaxInFlight == 2    \* most getStreamUrl calls in flight at once
MaxTime == 1        \* largest playback position of the sink explored
MaxTimers == 1      \* most skip timers pending at once (id-keyed App)
MaxInstances == 2   \* instances of STREAM_APIS one getStreamUrl call goes through
MaxStreams == 3     \* longest audioStreams list an instance delivers
MaxTitles == 6      \* most titles the recommendation provider answers with
MaxHosts == 2       \* most hosts the Audius directory lists
MaxCalls == 2       \* most calls of the Audius service in flight at once
MaxListeners == 3   \* most 'backButton' listeners registered (id-keyed App)
MaxClock == 4       \* latest time explored, in units of 1000 ms
MaxTitleLen == 5    \* most tokens of a title given to getStreamUrl
MaxArtists == 2     \* most names of a comma-joined artist given to it

\* ------------------------------------------------------------------- data
NoUrl == [kind |-> "none", id |-> 0]
StreamUrl(id) == [kind |-> "stream", id |-> id]
PreviewUrl(id) == [kind |-> "preview", id |-> id]
BlobUrl(id) == [kind |-> "blob", id |-> id]

\* currentSong === null
NoSong == [id |-> 0, audioUrl |-> NoUrl, previewUrl |-> NoUrl, isLocal |-> FALSE,
   lyrics |-> 0]

\* No handleAIGenerate call is suspended / one is, created in a render with
\* currentSong?.id = id (0: no current song) and isPlaying = ip.
NoClosure == [on |-> FALSE, id |-> 0, ip |-> FALSE]
Closure(id, ip) == [on |-> TRUE, id |-> id, ip |-> ip]

\* A search result with a preview (audioUrl: '' until resolved).
Track1 == [id |-> 1, audioUrl |-> NoUrl, previewUrl |-> PreviewUrl(1), isLocal |-> FALSE,
   lyrics |-> 0]
\* A search result for which the provider delivered no previewUrl.
Track2 == [id |-> 2, audioUrl |-> NoUrl, previewUrl |-> NoUrl, isLocal |-> FALSE,
   lyrics |-> 0]
\* A file imported from the device.
Track3 == [id |-> 3, audioUrl |-> BlobUrl(3), previewUrl |-> NoUrl, isLocal |-> TRUE,
   lyrics |-> 0]

\* Result lists a catalog search can deliver (fresh objects on every call).
SearchResults == {<<>>, <<Track1>>, <<Track1, Track2>>, <<Track2, Track1>>}
\* The id-keyed catalog (mapAudiusSong) delivers no previewUrl.
Track1_id == [Track1 EXCEPT !.previewUrl = NoUrl]
SearchResults_id == {<<>>, <<Track1_id>>, <<Track1_id, Track2>>, <<Track2, Track1_id>>}
\* Files the user can import.
LocalFiles == {Track3}

VARIABLES
  variant,            \* "pool" or "id": which App is running
  songs,              \* useState<Song[]>: the queue
  librarySongs,       \* useState<Song[]>: imported songs
  songsIsLibrary,     \* songs === librarySongs (same array object)
  currentSong,        \* useState<Song | null>
  isPlaying,          \* useState(false): playback intent
  isResolvingAudio,   \* useState(false) (pool-based App)
  usingPreview,       \* useState(false) (pool-based App)
  pending,            \* bag of the `song` arguments of the handlePlaySong
                      \* calls suspended at `await getStreamUrl` (pool)
  capturedIsPlaying,  \* isPlaying as seen by the audio listeners' closure
  audioSrc,           \* src of the <audio> element
  audioCmd,           \* last of play() / pause() called on the element
  audioTime,          \* audio.currentTime
  playPending,        \* a play() promise with a .catch handler is unsettled
  requests,           \* getStreamUrl(id) promises of the auto-resolve effect
                      \* (id-keyed): [id, cancelled]
  skipTimers,         \* pending setTimeout(() => handleNext(), 1000) (id-keyed)
  curIsQueueObj,      \* (id-keyed) the queue entries equal to currentSong in
                      \* every field are the very object currentSong holds
  hasMediaSession,    \* 'mediaSession' in navigator
  msPlaybackState,    \* navigator.mediaSession.playbackState ("none" until
                      \* it is assigned)
  msMetadata,         \* id of the song whose title, artist and album are in
                      \* navigator.mediaSession.metadata (0: null)
  aiClosure,          \* closure of the handleAIGenerate call suspended at an
                      \* await: currentSong?.id and isPlaying of its render
  isPlayerFull,       \* the full-screen player is open
  lyricsLoading,      \* (pool) a getLyrics call of the lyrics effect is out
  lyricCalls,         \* (pool) bag of the ids of the songs whose getLyrics
                      \* call is suspended at its await
  lyricsDone,         \* history: ids of the songs whose getLyrics call has
                      \* returned
  view,               \* the view shown
  backListeners,      \* (id-keyed) the 'backButton' listeners registered with
                      \* CapacitorApp, oldest first, each with the isPlayerFull
                      \* and view of the render that registered it
  lastBackPress,      \* (id-keyed) lastBackPress.current
  clock,              \* Date.now(), in units of 1000 ms
  exited,             \* CapacitorApp.exitApp() has been called
  showToast,          \* (id-keyed) the exit toast is shown
  title,              \* getStreamUrl(title, artist): the title, as its tokens
  artist,             \* the artist, as the names the commas separate
  rsQuery,            \* `query` of that call
  lastOp,             \* history: the operation that produced this state
  lastArg,            \* history: id of the song that operation was about
  lastUp,             \* history: usingPreview before that operation
  navRun,             \* history: length of the run of handleNext (or of
                      \* handlePrev) calls, from the skip buttons, ending here
  navStart,           \* history: id of the song current when that run began
  navSeen,            \* history: ids of the songs that were current during
                      \* that run, the one it began with included
  timerFor,           \* history: id of the song that was current when the
                      \* newest pending skip timer was armed (0: none pending)
  STREAM_APIS,        \* the array of instances of the module
  rsPhase,            \* getStreamUrl(title, artist): "idle", "search" (about
                      \* to fetch /search), "streams" (about to fetch
                      \* /streams/<id>) or "done"
  rsPos,              \* position, in the shuffled instances, of the instance
                      \* the loop is at (0 before the first call)
  rsOrder,            \* `instances`: the shuffled copy of STREAM_APIS
  rsTried,            \* history: the instances the loop body ran for, in
                      \* this call
  rsList,             \* audioStreams the instance at rsPos delivered
  rsPick,             \* position of bestStream in rsList (0: none chosen)
  rsResult,           \* how the call completed
  aiPhase,            \* playlist generation: "idle", "search" (the searches
                      \* of the titles are under way) or "done"
  aiOut,              \* history: how the request to the provider went
  aiRec,              \* how getAIRecommendations completed
  aiResults,          \* how the searchSongs calls completed, in title order
  aiPlaylist,         \* newPlaylist
  cachedHost,         \* `let cachedHost` of the Audius service
  calls,              \* bag of the calls of the Audius service suspended at
                      \* an await: [op, phase ("host": the lookup of
                      \* getHost; "fetch": the fetch of fetchJson)]
  hostLast,           \* history: the getHost call that returned last
  catLast             \* history: the catalog operation that returned last

vars == <<variant, songs, librarySongs, songsIsLibrary, currentSong, isPlaying,
          isResolvingAudio, usingPreview, pending, capturedIsPlaying,
          audioSrc, audioCmd, audioTime, playPending, requests, skipTimers,
          curIsQueueObj, hasMediaSession, msPlaybackState, msMetadata,
          aiClosure, lastOp, lastArg, lastUp, navRun, navStart, navSeen,
          timerFor, isPlayerFull, lyricsLoading, lyricCalls, lyricsDone,
          view, backListeners, lastBackPress, clock, exited, showToast,
          title, artist, rsQuery,
          STREAM_APIS, rsPhase, rsPos, rsOrder, rsTried, rsList, rsPick,
          rsResult,
          aiPhase, aiOut, aiRec, aiResults, aiPlaylist,
          cachedHost, calls, hostLast, catLast>>

\* State of one getStreamUrl(title, artist) call / of the App.
rsVars == <<STREAM_APIS, rsPhase, rsPos, rsOrder, rsTried, rsList, rsPick,
           rsResult>>
\* State of one run of the playlist generation pipeline.
genVars == <<aiPhase, aiOut, aiRec, aiResults, aiPlaylist>>
\* State of the catalog services.
catVars == <<cachedHost, calls, hostLast, catLast>>
appVars == <<variant, songs, librarySongs, songsIsLibrary, currentSong,
             isPlaying, isResolvingAudio, usingPreview, pending,
             capturedIsPlaying, audioSrc, audioCmd, audioTime, playPending,
             requests, skipTimers, curIsQueueObj, hasMediaSession,
             msPlaybackState, msMetadata, aiClosure, lastOp, lastArg, lastUp,
             navRun, navStart, navSeen, timerFor, isPlayerFull,
             lyricsLoading, lyricCalls, lyricsDone, view, backListeners,
             lastBackPress, clock, exited, showToast, title, artist,
             rsQuery>>


\* State of the id-keyed App only / of the pool-based App only.
idOnly == <<requests, skipTimers, curIsQueueObj, msPlaybackState, msMetadata>>
poolOnly == <<isResolvingAudio, usingPreview, pending, playPending>>

\* --------------------------------------------------------------- helpers
\* ViewState, and the window of the double back press (2000 ms) in units of
\* the clock.
Views == {"home", "search", "ai-dj", "library"}
BackWindow == 2

\* `query` of a getStreamUrl call that has not built it yet.
NoQuery == <<>>

\* Back Button Logic effect (id-keyed), deps [isPlayerFull, view], at a
\* commit that leaves the cells as full and v: it registers one more
\* listener, which closes over the two values, and removes none.
BackEffect(full, v) ==
  IF variant = "id" /\ (full # isPlayerFull \/ v # view)
  THEN backListeners' = Append(backListeners, [full |-> full, view |-> v])
  ELSE UNCHANGED backListeners

\* The view after a handler: handleImportMusic ends with setView('library'),
\* handleAIGenerate with setView('home') unless the pool-based one found
\* nothing.
ViewAfter(op, v) ==
  IF op = "import" THEN "library"
  ELSE IF op \in {"generated", "trending"} THEN "home"
  ELSE v

\* Bookkeeping of the history variables, once lastOp' is known.  A run of
\* skips ends with any other operation and starts over after a full round of
\* the queue.
HistOps ==
  /\ lastUp' = usingPreview
  /\ IF lastOp' \in {"next", "prev"}
     THEN IF lastOp = lastOp' /\ navRun > 0 /\ navRun < Len(songs)
          THEN /\ navRun' = navRun + 1 /\ navStart' = navStart
               /\ navSeen' = navSeen \cup {currentSong'.id}
          ELSE /\ navRun' = 1 /\ navStart' = currentSong.id
               /\ navSeen' = {currentSong.id, currentSong'.id}
     ELSE navRun' = 0 /\ navStart' = 0 /\ navSeen' = {}
  /\ timerFor' = IF skipTimers' > skipTimers THEN currentSong.id
                 ELSE IF skipTimers' = 0 THEN 0 ELSE timerFor
  /\ ~exited
  /\ UNCHANGED <<title, artist, rsQuery>>
  /\ UNCHANGED hasMediaSession
  /\ UNCHANGED <<rsVars, genVars, catVars>>

\* Condition under which the lyrics effect of the pool-based App (deps
\* [isPlayerFull, currentSong?.id]) starts a getLyrics call.
NeedsLyrics(full, cur, loading) ==
  full /\ cur # NoSong /\ cur.lyrics = 0 /\ ~cur.isLocal /\ ~loading

\* The lyrics effect at the commit of a handler that leaves isPlayerFull as
\* it is: it runs when the id of the current song has changed.
FetchLyrics_pool ==
  /\ IF /\ variant = "pool"
        /\ currentSong'.id # currentSong.id
        /\ NeedsLyrics(isPlayerFull, currentSong', lyricsLoading)
     THEN /\ lyricsLoading' = TRUE
          /\ lyricCalls' = lyricCalls (+) SetToBag({currentSong'.id})
     ELSE UNCHANGED <<lyricsLoading, lyricCalls>>
  /\ UNCHANGED <<isPlayerFull, lyricsDone>>

\* What every handler of the two Apps ends with: the bookkeeping, the
\* lyrics effect, the view the handler leaves and the back button effect.
Hist ==
  /\ HistOps
  /\ FetchLyrics_pool
  /\ view' = ViewAfter(lastOp', view)
  /\ BackEffect(isPlayerFull, view')
  /\ UNCHANGED <<lastBackPress, clock, exited, showToast>>

\* Truthiness of a url field ('' and undefined are falsy); every url the
\* providers deliver is longer than the 5 characters handlePlaySong asks for.
HasUrl(u) == u # NoUrl

\* JavaScript remainder: the sign follows the dividend.
JsRem(a, n) == IF a >= 0 THEN a % n ELSE 0 - ((0 - a) % n)

\* Array.prototype.findIndex(s => s.id === id): 0-based, -1 when absent.
FindIndex(q, id) ==
  IF \E i \in 1..Len(q) : q[i].id = id
  THEN (CHOOSE i \in 1..Len(q) :
          q[i].id = id /\ \A j \in 1..(i - 1) : q[j].id # id) - 1
  ELSE -1

\* A faulty src attribute that prefers audioUrl to the preview.
AudioSrc_poolResolvedFirst(cur, up) ==
  IF HasUrl(cur.audioUrl) THEN cur.audioUrl
  ELSE IF up THEN cur.previewUrl ELSE NoUrl
\* src attribute of the pool-based <audio> element.
AudioSrc_pool(cur, up) ==
  IF up /\ HasUrl(cur.previewUrl) THEN cur.previewUrl ELSE cur.audioUrl

\* A faulty comparison that never recognises the current song.
SameTrackNever(cur, song) == FALSE
\* currentSong?.id === song.id
SameTrack(cur, song) == cur # NoSong /\ cur.id = song.id

\* Faulty skip conditions: the negated one, and one that ignores audioUrl.
NeedsNoResolveInverted(song) == ~(song.isLocal \/ HasUrl(song.audioUrl))
NeedsNoResolveLocalOnly(song) == song.isLocal
\* Condition under which handlePlaySong skips the resolver.
NeedsNoResolve(song) == song.isLocal \/ HasUrl(song.audioUrl)

\* A faulty update that leaves the queue as it was.
PropagateNone(q, updated) == q
\* setSongs(prev => prev.map(s => s.id === song.id ? updatedSong : s))
Propagate(q, updated) ==
  [i \in 1..Len(q) |-> IF q[i].id = updated.id THEN updated ELSE q[i]]


\* ------------------------------------------------- pool-based App: commit
\* Sync-play-state effect (deps [isPlaying, currentSong, isResolvingAudio,
\* usingPreview]): the condition under which it commands the element.
SyncCond_pool(cur, resolving, up) ==
  cur # NoSong /\ ~resolving /\ (HasUrl(cur.audioUrl) \/ up)

\* The commit that follows the state updates of one handler.  curNew / songsNew
\* say whether currentSong / songs received a new object; imp is the command
\* the handler itself gave to the element (audioCmd when it gave none); pp
\* says whether a play() promise is still unsettled when the effects run.
\* pause() rejects the unsettled promise at once, and its catch handler then
\* finds isPlaying already false.
Commit_pool(curNew, songsNew, imp, pp) ==
  LET upChg == usingPreview' # usingPreview
      syncRuns == \/ isPlaying' # isPlaying
                  \/ curNew
                  \/ isResolvingAudio' # isResolvingAudio
                  \/ upChg
      syncActs == syncRuns /\ SyncCond_pool(currentSong', isResolvingAudio', usingPreview')
  IN  /\ audioSrc' = AudioSrc_pool(currentSong', usingPreview')
      /\ audioTime' = IF audioSrc' # audioSrc THEN 0 ELSE audioTime
      \* audio-events effect, deps [songs, currentSong, usingPreview]
      /\ capturedIsPlaying' = IF curNew \/ songsNew \/ upChg
                              THEN isPlaying' ELSE capturedIsPlaying
      /\ audioCmd' = IF syncActs THEN (IF isPlaying' THEN "play" ELSE "pause")
                     ELSE imp
      /\ playPending' = IF syncActs THEN isPlaying' ELSE pp

\* ---------------------------------------------- pool-based App: handlers
\* handlePlaySong(song, contextSongs) up to its first await.  same and ip
\* are `currentSong?.id === song.id` and isPlaying as the calling closure
\* sees them; setCtx says that contextSongs was given and is not the songs
\* array; ctx is contextSongs.
handlePlaySong_pool(same, song, setCtx, ctx, ip) ==
  /\ songs' = IF setCtx THEN ctx ELSE songs
  /\ IF same
     THEN /\ isPlaying' = ~ip
          /\ UNCHANGED <<currentSong, isResolvingAudio, usingPreview, pending>>
          /\ Commit_pool(FALSE, setCtx, audioCmd, playPending)
     ELSE /\ currentSong' = song
          /\ isPlaying' = TRUE
          /\ usingPreview' = FALSE
          /\ IF NeedsNoResolve(song)
             THEN /\ isResolvingAudio' = FALSE
                  /\ UNCHANGED pending
             ELSE /\ BagCardinality(pending) < MaxInFlight
                  /\ isResolvingAudio' = TRUE
                  /\ pending' = pending (+) SetToBag({song})
          /\ Commit_pool(TRUE, setCtx, audioCmd, playPending)

\* A row of the home list or of the queue panel is clicked:
\* handlePlaySong(s, songs) / handlePlaySong(s).
PlayFromList_pool ==
  /\ variant = "pool"
  /\ \E i \in 1..Len(songs) :
       /\ handlePlaySong_pool(SameTrack(currentSong, songs[i]), songs[i], FALSE,
                              songs, isPlaying)
       /\ lastArg' = songs[i].id
  /\ lastOp' = "play"
  /\ UNCHANGED <<variant, librarySongs, songsIsLibrary>>
  /\ UNCHANGED idOnly
  /\ UNCHANGED aiClosure
  /\ Hist

\* A row of the library list is clicked: handlePlaySong(s, librarySongs).
PlayFromLibrary_pool ==
  /\ variant = "pool"
  /\ \E i \in 1..Len(librarySongs) :
       /\ handlePlaySong_pool(SameTrack(currentSong, librarySongs[i]),
                              librarySongs[i], ~songsIsLibrary,
                              librarySongs, isPlaying)
       /\ lastArg' = librarySongs[i].id
  /\ songsIsLibrary' = TRUE
  /\ lastOp' = "play"
  /\ UNCHANGED <<variant, librarySongs>>
  /\ UNCHANGED idOnly
  /\ UNCHANGED aiClosure
  /\ Hist

\* A faulty continuation that never calls setIsResolvingAudio(false).
ResolveOutcome_poolNoClear(song, found) ==
  IF found
  THEN LET updatedSong == [song EXCEPT !.audioUrl = StreamUrl(song.id)]
       IN  /\ currentSong' = updatedSong
           /\ songs' = Propagate(songs, updatedSong)
           /\ songsIsLibrary' = FALSE
           /\ UNCHANGED <<isPlaying, usingPreview, isResolvingAudio>>
           /\ Commit_pool(TRUE, TRUE, audioCmd, playPending)
  ELSE /\ IF HasUrl(song.previewUrl)
          THEN usingPreview' = TRUE /\ UNCHANGED isPlaying
          ELSE isPlaying' = FALSE /\ UNCHANGED usingPreview
       /\ UNCHANGED <<currentSong, songs, songsIsLibrary, isResolvingAudio>>
       /\ Commit_pool(FALSE, FALSE, audioCmd, playPending)
\* The continuation of handlePlaySong after `await getStreamUrl(...)`.
\* found = FALSE is the null result; the catch branch does the same.
ResolveOutcome_pool(song, found) ==
  IF found
  THEN LET updatedSong == [song EXCEPT !.audioUrl = StreamUrl(song.id)]
       IN  /\ currentSong' = updatedSong
           /\ songs' = Propagate(songs, updatedSong)
           /\ songsIsLibrary' = FALSE
           /\ isResolvingAudio' = FALSE
           /\ UNCHANGED <<isPlaying, usingPreview>>
           /\ Commit_pool(TRUE, TRUE, audioCmd, playPending)
  ELSE /\ IF HasUrl(song.previewUrl)
          THEN usingPreview' = TRUE /\ UNCHANGED isPlaying
          ELSE isPlaying' = FALSE /\ UNCHANGED usingPreview
       /\ isResolvingAudio' = FALSE
       /\ UNCHANGED <<currentSong, songs, songsIsLibrary>>
       /\ Commit_pool(FALSE, FALSE, audioCmd, playPending)

ResolveDone_pool ==
  /\ variant = "pool"
  /\ \E song \in BagToSet(pending), found \in BOOLEAN :
       /\ pending' = pending (-) SetToBag({song})
       /\ ResolveOutcome_pool(song, found)
       /\ lastOp' = IF found THEN "resolved" ELSE "notfound"
       /\ lastArg' = song.id
  /\ UNCHANGED <<variant, librarySongs>>
  /\ UNCHANGED idOnly
  /\ UNCHANGED aiClosure
  /\ Hist

\* The play/pause buttons: setIsPlaying(!isPlaying); both are shown or
\* enabled only while no resolution is in flight.
TogglePlay_pool ==
  /\ variant = "pool"
  /\ currentSong # NoSong
  /\ ~isResolvingAudio
  /\ isPlaying' = ~isPlaying
  /\ UNCHANGED <<variant, songs, librarySongs, songsIsLibrary, currentSong,
                 isResolvingAudio, usingPreview, pending>>
  /\ UNCHANGED idOnly
  /\ Commit_pool(FALSE, FALSE, audioCmd, playPending)
  /\ lastOp' = "toggle"
  /\ lastArg' = currentSong.id
  /\ UNCHANGED aiClosure
  /\ Hist


\* handleAddToQueue(song), from a row of the home list or of the library list.
handleAddToQueue_pool ==
  /\ variant = "pool"
  /\ Len(songs) < MaxQueue
  /\ \E song \in {songs[i] : i \in 1..Len(songs)}
               \cup {librarySongs[i] : i \in 1..Len(librarySongs)} :
       /\ songs' = Append(songs, song)
       /\ lastArg' = song.id
  /\ songsIsLibrary' = FALSE
  /\ UNCHANGED <<variant, librarySongs, currentSong, isPlaying,
                 isResolvingAudio, usingPreview, pending>>
  /\ UNCHANGED idOnly
  /\ Commit_pool(FALSE, TRUE, audioCmd, playPending)
  /\ lastOp' = "add"
  /\ UNCHANGED aiClosure
  /\ Hist

\* handleImportMusic: one file, not imported before (ids carry Date.now()).
handleImportMusic_pool ==
  /\ variant = "pool"
  /\ Len(songs) < MaxQueue
  /\ \E f \in LocalFiles :
       /\ \A i \in 1..Len(librarySongs) : librarySongs[i].id # f.id
       /\ librarySongs' = Append(librarySongs, f)
       /\ songs' = Append(songs, f)
       /\ lastArg' = f.id
  /\ songsIsLibrary' = FALSE
  /\ UNCHANGED <<variant, currentSong, isPlaying, isResolvingAudio,
                 usingPreview, pending>>
  /\ UNCHANGED idOnly
  /\ Commit_pool(FALSE, TRUE, audioCmd, playPending)
  /\ lastOp' = "import"
  /\ UNCHANGED aiClosure
  /\ Hist

\* loadData / handleSearch after their await: setSongs(results).
handleSearch_pool ==
  /\ variant = "pool"
  /\ \E results \in SearchResults : songs' = results
  /\ songsIsLibrary' = FALSE
  /\ UNCHANGED <<variant, librarySongs, currentSong, isPlaying,
                 isResolvingAudio, usingPreview, pending>>
  /\ UNCHANGED idOnly
  /\ Commit_pool(FALSE, TRUE, audioCmd, playPending)
  /\ lastOp' = "search"
  /\ lastArg' = 0
  /\ UNCHANGED aiClosure
  /\ Hist

\* The Generate button (disabled while isAiLoading or without a prompt):
\* handleAIGenerate up to its first await.
handleAIGenerate_pool ==
  /\ variant = "pool"
  /\ ~aiClosure.on
  /\ aiClosure' = Closure(currentSong.id, isPlaying)
  /\ UNCHANGED <<variant, songs, librarySongs, songsIsLibrary, currentSong,
                 isPlaying, isResolvingAudio, usingPreview, pending,
                 capturedIsPlaying, audioSrc, audioCmd, audioTime, playPending>>
  /\ UNCHANGED idOnly
  /\ lastOp' = "generate"
  /\ lastArg' = 0
  /\ Hist

\* handleAIGenerate after `await Promise.all(promises)`, newPlaylist built:
\* setSongs(newPlaylist) and handlePlaySong(newPlaylist[0], newPlaylist) of
\* the render the handler was created in, or the alert alone.
AIGenerated_pool ==
  /\ variant = "pool"
  /\ aiClosure.on
  /\ \E newPlaylist \in SearchResults :
       IF Len(newPlaylist) > 0
       THEN /\ handlePlaySong_pool(aiClosure.id = newPlaylist[1].id,
                                   newPlaylist[1], TRUE, newPlaylist,
                                   aiClosure.ip)
            /\ songsIsLibrary' = FALSE
            /\ lastOp' = "generated"
            /\ lastArg' = newPlaylist[1].id
       ELSE /\ UNCHANGED <<songs, songsIsLibrary, currentSong, isPlaying,
                           isResolvingAudio, usingPreview, pending,
                           capturedIsPlaying, audioSrc, audioCmd, audioTime,
                           playPending>>
            /\ lastOp' = "nomatch"
            /\ lastArg' = 0
  /\ aiClosure' = NoClosure
  /\ UNCHANGED <<variant, librarySongs>>
  /\ UNCHANGED idOnly
  /\ Hist

\* Index handleNext / handlePrev pass to songs[...], 0-based; the queue is
\* not empty.
\* Faulty indices that stop at the end of the queue instead of wrapping.
NextIndex_poolNoWrap(q, cur) ==
  LET i == FindIndex(q, cur.id)
  IN  IF i + 1 >= Len(q) THEN Len(q) - 1 ELSE i + 1
NextIndex_pool(q, cur) == JsRem(FindIndex(q, cur.id) + 1, Len(q))
PrevIndex_poolNoWrap(q, cur) ==
  LET i == FindIndex(q, cur.id)
  IN  IF i <= 0 THEN 0 ELSE i - 1
PrevIndex_pool(q, cur) == JsRem(FindIndex(q, cur.id) - 1 + Len(q), Len(q))

\* handleNext / handlePrev as called from a closure that sees isPlaying as ip.
\* With an empty queue the index is NaN, songs[NaN] is undefined and
\* handlePlaySong(undefined) rejects on song.id before any state update.
handleNext_pool(ip) ==
  IF Len(songs) = 0
  THEN /\ UNCHANGED <<songs, currentSong, isPlaying, isResolvingAudio,
                      usingPreview, pending, capturedIsPlaying, audioSrc,
                      audioCmd, audioTime, playPending>>
  ELSE LET song == songs[NextIndex_pool(songs, currentSong) + 1]
       IN  handlePlaySong_pool(SameTrack(currentSong, song), song, FALSE,
                               songs, ip)

handlePrev_pool(ip) ==
  IF Len(songs) = 0
  THEN /\ UNCHANGED <<songs, currentSong, isPlaying, isResolvingAudio,
                      usingPreview, pending, capturedIsPlaying, audioSrc,
                      audioCmd, audioTime, playPending>>
  ELSE LET song == songs[PrevIndex_pool(songs, currentSong) + 1]
       IN  handlePlaySong_pool(SameTrack(currentSong, song), song, FALSE,
                               songs, ip)

\* The skip buttons of the full player (shown when a song is current).
Next_pool ==
  /\ variant = "pool"
  /\ currentSong # NoSong
  /\ handleNext_pool(isPlaying)
  /\ lastOp' = "next"
  /\ lastArg' = currentSong.id
  /\ UNCHANGED <<variant, librarySongs, songsIsLibrary>>
  /\ UNCHANGED idOnly
  /\ UNCHANGED aiClosure
  /\ Hist

Prev_pool ==
  /\ variant = "pool"
  /\ currentSong # NoSong
  /\ handlePrev_pool(isPlaying)
  /\ lastOp' = "prev"
  /\ lastArg' = currentSong.id
  /\ UNCHANGED <<variant, librarySongs, songsIsLibrary>>
  /\ UNCHANGED idOnly
  /\ UNCHANGED aiClosure
  /\ Hist

\* 'ended' from the element: onEnded = () => handleNext(), the handleNext of
\* the render in which the audio-events effect last ran.
Ended_pool ==
  /\ variant = "pool"
  /\ currentSong # NoSong
  /\ audioCmd = "play" /\ HasUrl(audioSrc)
  /\ handleNext_pool(capturedIsPlaying)
  /\ lastOp' = "ended"
  /\ lastArg' = currentSong.id
  /\ UNCHANGED <<variant, librarySongs, songsIsLibrary>>
  /\ UNCHANGED idOnly
  /\ UNCHANGED aiClosure
  /\ Hist

\* 'error' from the element (a source is set and fails): onError.
onError_pool ==
  /\ variant = "pool"
  /\ currentSong # NoSong
  /\ HasUrl(audioSrc)
  /\ IF capturedIsPlaying /\ ~usingPreview /\ HasUrl(currentSong.previewUrl)
     THEN /\ usingPreview' = TRUE
          /\ UNCHANGED <<songs, currentSong, isPlaying, isResolvingAudio, pending>>
          /\ Commit_pool(FALSE, FALSE, "play", playPending)
     ELSE IF capturedIsPlaying
          THEN handleNext_pool(capturedIsPlaying)
          ELSE UNCHANGED <<songs, currentSong, isPlaying, isResolvingAudio,
                           usingPreview, pending, capturedIsPlaying, audioSrc,
                           audioCmd, audioTime, playPending>>
  /\ lastOp' = "error"
  /\ lastArg' = currentSong.id
  /\ UNCHANGED <<variant, librarySongs, songsIsLibrary>>
  /\ UNCHANGED idOnly
  /\ UNCHANGED aiClosure
  /\ Hist

\* The promise of the sync effect's audio.play() settles.  Rejected (autoplay
\* blocked, load aborted): the catch handler calls setIsPlaying(false).
PlaySettled_pool ==
  /\ variant = "pool"
  /\ playPending
  /\ \E ok \in BOOLEAN :
       /\ isPlaying' = IF ok THEN isPlaying ELSE FALSE
       /\ lastOp' = IF ok THEN "playOk" ELSE "playRejected"
  /\ UNCHANGED <<variant, songs, librarySongs, songsIsLibrary, currentSong,
                 isResolvingAudio, usingPreview, pending>>
  /\ UNCHANGED idOnly
  /\ Commit_pool(FALSE, FALSE, audioCmd, FALSE)
  /\ lastArg' = currentSong.id
  /\ UNCHANGED aiClosure
  /\ Hist

\* Playback progresses ('timeupdate').
TimeUpdate ==
  /\ audioCmd = "play" /\ HasUrl(audioSrc)
  /\ audioTime < MaxTime
  /\ audioTime' = audioTime + 1
  /\ lastOp' = "timeupdate"
  /\ lastArg' = currentSong.id
  /\ UNCHANGED <<variant, songs, librarySongs, songsIsLibrary, currentSong,
                 isPlaying, isResolvingAudio, usingPreview, pending,
                 capturedIsPlaying, audioSrc, audioCmd, playPending>>
  /\ UNCHANGED idOnly
  /\ UNCHANGED aiClosure
  /\ Hist

\* --------------------------------------------------- id-keyed App: commit
\* Auto-resolve effect (deps [currentSong]): the condition under which it
\* calls getStreamUrl(currentSong.id).
NeedsResolve_id(cur) == cur # NoSong /\ ~cur.isLocal /\ ~HasUrl(cur.audioUrl)

\* The auto-resolve effect re-runs: the cleanup of the previous run sets its
\* `cancelled`, then a request is started when the condition holds.
AutoResolve_id(reqs, cur) ==
  {[r EXCEPT !.cancelled = TRUE] : r \in reqs}
    \cup (IF NeedsResolve_id(cur)
          THEN {[id |-> cur.id, cancelled |-> FALSE]} ELSE {})

\* A faulty playback-state effect that always publishes 'playing'.
PlaybackStateStuck(ip) == "playing"
\* isPlaying ? 'playing' : 'paused'
PlaybackState(ip) == IF ip THEN "playing" ELSE "paused"

\* The commit that follows the state updates of one handler; reqs are the
\* requests still in flight when the effects run.
Commit_id(curNew, songsNew, reqs) ==
  LET syncRuns == \/ isPlaying' # isPlaying
                  \/ currentSong'.audioUrl # currentSong.audioUrl
      syncActs == syncRuns /\ currentSong' # NoSong /\ HasUrl(currentSong'.audioUrl)
  IN  /\ audioSrc' = currentSong'.audioUrl
      /\ audioTime' = IF audioSrc' # audioSrc THEN 0 ELSE audioTime
      \* audio-events effect, deps [songs, currentSong]
      /\ capturedIsPlaying' = IF curNew \/ songsNew
                              THEN isPlaying' ELSE capturedIsPlaying
      /\ requests' = IF curNew THEN AutoResolve_id(reqs, currentSong') ELSE reqs
      /\ audioCmd' = IF syncActs THEN (IF isPlaying' THEN "play" ELSE "pause")
                     ELSE audioCmd
      \* Media Session effects: metadata (deps [currentSong]) and playback
      \* state (deps [isPlaying])
      /\ msMetadata' = IF hasMediaSession /\ curNew /\ currentSong' # NoSong
                       THEN currentSong'.id ELSE msMetadata
      /\ msPlaybackState' = IF hasMediaSession /\ isPlaying' # isPlaying
                            THEN PlaybackState(isPlaying') ELSE msPlaybackState

\* --------------------------------------------------- id-keyed App: handlers
\* handlePlaySong(song, contextSongs); song comes from a rendered list, so it
\* is an object with an id.  same and ip are `currentSong?.id === song.id`
\* and isPlaying as the calling closure sees them.
handlePlaySong_id(same, song, setCtx, ctx, ip) ==
  /\ songs' = IF setCtx THEN ctx ELSE songs
  /\ IF same
     THEN /\ isPlaying' = ~ip
          /\ UNCHANGED <<currentSong, curIsQueueObj>>
          /\ Commit_id(FALSE, setCtx, requests)
     ELSE /\ currentSong' = song
          /\ isPlaying' = TRUE
          /\ curIsQueueObj' = TRUE
          /\ Commit_id(TRUE, setCtx, requests)

PlayFromList_id ==
  /\ variant = "id"
  /\ \E i \in 1..Len(songs) :
       /\ handlePlaySong_id(SameTrack(currentSong, songs[i]), songs[i], FALSE,
                            songs, isPlaying)
       /\ lastArg' = songs[i].id
  /\ lastOp' = "play"
  /\ UNCHANGED <<variant, librarySongs, songsIsLibrary, skipTimers>>
  /\ UNCHANGED poolOnly
  /\ UNCHANGED aiClosure
  /\ Hist

PlayFromLibrary_id ==
  /\ variant = "id"
  /\ \E i \in 1..Len(librarySongs) :
       /\ handlePlaySong_id(SameTrack(currentSong, librarySongs[i]),
                            librarySongs[i], ~songsIsLibrary, librarySongs,
                            isPlaying)
       /\ lastArg' = librarySongs[i].id
  /\ songsIsLibrary' = TRUE
  /\ lastOp' = "play"
  /\ UNCHANGED <<variant, librarySongs, skipTimers>>
  /\ UNCHANGED poolOnly
  /\ UNCHANGED aiClosure
  /\ Hist

\* A faulty updater without the `cancelled` and id tests.
ApplyUrl_idNoGuard(cur, r, url) ==
  IF cur # NoSong THEN [cur EXCEPT !.audioUrl = url] ELSE cur
\* What the updater of the auto-resolve effect returns for prev = cur when
\* the promise of request r resolves with url.
ApplyUrl_id(cur, r, url) ==
  IF r.cancelled THEN cur
  ELSE IF cur # NoSong /\ cur.id = r.id
       THEN [cur EXCEPT !.audioUrl = url] ELSE cur

\* A getStreamUrl(id) promise resolves (it never rejects: getHost falls back
\* to the static endpoint).
UrlArrived_id ==
  /\ variant = "id"
  /\ UNCHANGED <<variant, songs, librarySongs, songsIsLibrary, isPlaying, skipTimers>>
  /\ UNCHANGED poolOnly
  /\ \E r \in requests :
       LET next == ApplyUrl_id(currentSong, r, StreamUrl(r.id))
       IN  /\ currentSong' = next
           /\ curIsQueueObj' = IF next # currentSong THEN FALSE ELSE curIsQueueObj
           /\ Commit_id(next # currentSong, FALSE, requests \ {r})
           /\ lastArg' = r.id
  /\ lastOp' = "resolved"
  /\ UNCHANGED aiClosure
  /\ Hist

TogglePlay_id ==
  /\ variant = "id"
  /\ currentSong # NoSong
  /\ isPlaying' = ~isPlaying
  /\ UNCHANGED <<variant, songs, librarySongs, songsIsLibrary, currentSong,
                 curIsQueueObj, skipTimers>>
  /\ UNCHANGED poolOnly
  /\ Commit_id(FALSE, FALSE, requests)
  /\ lastOp' = "toggle"
  /\ lastArg' = currentSong.id
  /\ UNCHANGED aiClosure
  /\ Hist

\* handleAddToQueue(song): only the home list offers it.
handleAddToQueue_id ==
  /\ variant = "id"
  /\ Len(songs) < MaxQueue
  /\ \E i \in 1..Len(songs) :
       /\ songs' = Append(songs, songs[i])
       /\ lastArg' = songs[i].id
  /\ songsIsLibrary' = FALSE
  /\ UNCHANGED <<variant, librarySongs, currentSong, isPlaying, curIsQueueObj,
                 skipTimers>>
  /\ UNCHANGED poolOnly
  /\ Commit_id(FALSE, TRUE, requests)
  /\ lastOp' = "add"
  /\ UNCHANGED aiClosure
  /\ Hist

handleImportMusic_id ==
  /\ variant = "id"
  /\ Len(songs) < MaxQueue
  /\ \E f \in LocalFiles :
       /\ \A i \in 1..Len(librarySongs) : librarySongs[i].id # f.id
       /\ librarySongs' = Append(librarySongs, f)
       /\ songs' = Append(songs, f)
       /\ lastArg' = f.id
  /\ songsIsLibrary' = FALSE
  /\ UNCHANGED <<variant, currentSong, isPlaying, curIsQueueObj, skipTimers>>
  /\ UNCHANGED poolOnly
  /\ Commit_id(FALSE, TRUE, requests)
  /\ lastOp' = "import"
  /\ UNCHANGED aiClosure
  /\ Hist

\* loadData / handleSearch after their await: setSongs(results).
handleSearch_id ==
  /\ variant = "id"
  /\ \E results \in SearchResults_id : songs' = results
  /\ songsIsLibrary' = FALSE
  /\ curIsQueueObj' = FALSE
  /\ UNCHANGED <<variant, librarySongs, currentSong, isPlaying, skipTimers>>
  /\ UNCHANGED poolOnly
  /\ Commit_id(FALSE, TRUE, requests)
  /\ lastOp' = "search"
  /\ lastArg' = 0
  /\ UNCHANGED aiClosure
  /\ Hist

\* The Generate button: handleAIGenerate up to its first await.
handleAIGenerate_id ==
  /\ variant = "id"
  /\ ~aiClosure.on
  /\ aiClosure' = Closure(currentSong.id, isPlaying)
  /\ UNCHANGED <<variant, songs, librarySongs, songsIsLibrary, currentSong,
                 isPlaying, capturedIsPlaying, audioSrc, audioCmd, audioTime>>
  /\ UNCHANGED idOnly
  /\ UNCHANGED poolOnly
  /\ lastOp' = "generate"
  /\ lastArg' = 0
  /\ Hist

\* handleAIGenerate after `await Promise.all(promises)`, newPlaylist built:
\* setSongs(newPlaylist) and handlePlaySong(newPlaylist[0], newPlaylist) of
\* the render the handler was created in, or, after the alert,
\* setSongs(await getFeaturedSongs()).
AIGenerated_id ==
  /\ variant = "id"
  /\ aiClosure.on
  /\ \E newPlaylist \in SearchResults_id :
       IF Len(newPlaylist) > 0
       THEN /\ handlePlaySong_id(aiClosure.id = newPlaylist[1].id,
                                 newPlaylist[1], TRUE, newPlaylist,
                                 aiClosure.ip)
            /\ lastOp' = "generated"
            /\ lastArg' = newPlaylist[1].id
       ELSE /\ \E featured \in SearchResults_id : songs' = featured
            /\ curIsQueueObj' = FALSE
            /\ UNCHANGED <<currentSong, isPlaying>>
            /\ Commit_id(FALSE, TRUE, requests)
            /\ lastOp' = "trending"
            /\ lastArg' = 0
  /\ songsIsLibrary' = FALSE
  /\ aiClosure' = NoClosure
  /\ UNCHANGED <<variant, librarySongs, skipTimers>>
  /\ UNCHANGED poolOnly
  /\ Hist

\* A faulty handleNext updater that stops at the end of the queue.
NextSong_idNoWrap(q, cur) ==
  IF cur = NoSong \/ Len(q) = 0 THEN cur
  ELSE LET currentIndex == FindIndex(q, cur.id)
           safeIndex == IF currentIndex = -1 THEN 0 ELSE currentIndex
       IN  q[(IF safeIndex + 1 >= Len(q) THEN Len(q) - 1 ELSE safeIndex + 1) + 1]
\* A faulty handleNext updater without the safeIndex step: no song when the
\* current one is not in the queue.
NextSong_idNoSafe(q, cur) ==
  IF cur = NoSong \/ Len(q) = 0 THEN cur
  ELSE LET currentIndex == FindIndex(q, cur.id)
       IN  IF currentIndex = -1 THEN NoSong
           ELSE q[JsRem(currentIndex + 1, Len(q)) + 1]
\* The song handleNext / handlePrev make current (their nested updaters).
NextSong_id(q, cur) ==
  IF cur = NoSong \/ Len(q) = 0 THEN cur
  ELSE LET currentIndex == FindIndex(q, cur.id)
           safeIndex == IF currentIndex = -1 THEN 0 ELSE currentIndex
       IN  q[JsRem(safeIndex + 1, Len(q)) + 1]

PrevSong_id(q, cur) ==
  IF cur = NoSong \/ Len(q) = 0 THEN cur
  ELSE LET currentIndex == FindIndex(q, cur.id)
           safeIndex == IF currentIndex = -1 THEN 0 ELSE currentIndex
       IN  q[JsRem(safeIndex - 1 + Len(q), Len(q)) + 1]

\* setCurrentSong(target) followed by setIsPlaying(true), as handleNext and
\* handlePrev do.  The cell receives a new object unless target is the very
\* object it holds.
Navigate_id(target) ==
  LET same == target = currentSong /\ (target = NoSong \/ target.isLocal \/ curIsQueueObj)
  IN  /\ currentSong' = target
      /\ isPlaying' = TRUE
      /\ curIsQueueObj' = IF target = NoSong \/ Len(songs) = 0
                          THEN curIsQueueObj ELSE TRUE
      /\ Commit_id(~same, FALSE, requests)
      /\ UNCHANGED <<variant, songs, librarySongs, songsIsLibrary>>
      /\ UNCHANGED poolOnly

Next_id ==
  /\ variant = "id"
  /\ currentSong # NoSong
  /\ Navigate_id(NextSong_id(songs, currentSong))
  /\ lastOp' = "next"
  /\ lastArg' = currentSong.id
  /\ UNCHANGED skipTimers
  /\ UNCHANGED aiClosure
  /\ Hist

Prev_id ==
  /\ variant = "id"
  /\ currentSong # NoSong
  /\ Navigate_id(PrevSong_id(songs, currentSong))
  /\ lastOp' = "prev"
  /\ lastArg' = currentSong.id
  /\ UNCHANGED skipTimers
  /\ UNCHANGED aiClosure
  /\ Hist

Ended_id ==
  /\ variant = "id"
  /\ currentSong # NoSong
  /\ audioCmd = "play" /\ HasUrl(audioSrc)
  /\ Navigate_id(NextSong_id(songs, currentSong))
  /\ lastOp' = "ended"
  /\ lastArg' = currentSong.id
  /\ UNCHANGED skipTimers
  /\ UNCHANGED aiClosure
  /\ Hist

\* 'error' from the element: onError arms a one-second timer when the
\* closure's isPlaying is true.
onError_id ==
  /\ variant = "id"
  /\ currentSong # NoSong
  /\ HasUrl(audioSrc)
  /\ IF capturedIsPlaying
     THEN skipTimers < MaxTimers /\ skipTimers' = skipTimers + 1
     ELSE UNCHANGED skipTimers
  /\ lastOp' = "error"
  /\ lastArg' = currentSong.id
  /\ UNCHANGED <<variant, songs, librarySongs, songsIsLibrary, currentSong,
                 isPlaying, capturedIsPlaying, audioSrc, audioCmd, audioTime,
                 requests, curIsQueueObj, msPlaybackState, msMetadata>>
  /\ UNCHANGED poolOnly
  /\ UNCHANGED aiClosure
  /\ Hist

\* The timer armed by onError fires: handleNext().
SkipTimer_id ==
  /\ variant = "id"
  /\ skipTimers > 0
  /\ skipTimers' = skipTimers - 1
  /\ Navigate_id(NextSong_id(songs, currentSong))
  /\ lastOp' = "timer"
  /\ lastArg' = currentSong.id
  /\ UNCHANGED aiClosure
  /\ Hist

\* ------------------------------- id-keyed App: Media Session controls
\* The 'play' and 'pause' action handlers: setIsPlaying(true / false).  The
\* metadata effect registers the handlers once a song is current.  The
\* 'nexttrack' and 'previoustrack' handlers are handleNext and handlePrev
\* (Next_id, Prev_id).
MediaSession_setPlaying ==
  /\ variant = "id"
  /\ hasMediaSession
  /\ currentSong # NoSong
  /\ \E b \in BOOLEAN :
       /\ isPlaying' = b
       /\ lastOp' = IF b THEN "ms-play" ELSE "ms-pause"
  /\ lastArg' = currentSong.id
  /\ UNCHANGED <<variant, songs, librarySongs, songsIsLibrary, currentSong,
                 curIsQueueObj, skipTimers>>
  /\ UNCHANGED poolOnly
  /\ Commit_id(FALSE, FALSE, requests)
  /\ UNCHANGED aiClosure
  /\ Hist

\* The 'stop' action handler: setIsPlaying(false), audio.pause(),
\* audio.currentTime = 0.
MediaSession_stop ==
  /\ variant = "id"
  /\ hasMediaSession
  /\ currentSong # NoSong
  /\ isPlaying' = FALSE
  /\ audioCmd' = "pause"
  /\ audioTime' = 0
  /\ msPlaybackState' = IF isPlaying THEN PlaybackState(FALSE) ELSE msPlaybackState
  /\ lastOp' = "ms-stop"
  /\ lastArg' = currentSong.id
  /\ UNCHANGED <<variant, songs, librarySongs, songsIsLibrary, currentSong,
                 capturedIsPlaying, audioSrc, requests, curIsQueueObj,
                 skipTimers, msMetadata>>
  /\ UNCHANGED poolOnly
  /\ UNCHANGED aiClosure
  /\ Hist

\* The 'seekto', 'seekbackward' and 'seekforward' action handlers, for a
\* loaded source: audio.currentTime = t.
MediaSession_seek ==
  /\ variant = "id"
  /\ hasMediaSession
  /\ currentSong # NoSong
  /\ HasUrl(audioSrc)
  /\ \E t \in 0..MaxTime : audioTime' = t
  /\ lastOp' = "ms-seek"
  /\ lastArg' = currentSong.id
  /\ UNCHANGED <<variant, songs, librarySongs, songsIsLibrary, currentSong,
                 isPlaying, capturedIsPlaying, audioSrc, audioCmd>>
  /\ UNCHANGED idOnly
  /\ UNCHANGED poolOnly
  /\ UNCHANGED aiClosure
  /\ Hist

\* ------------------------------------- getStreamUrl(title, artist) (pool)
\* mimeType values of a stream; "missing" is a stream without the field.
Mimes == {"audio/mp4", "audio/x-m4a", "audio/webm", "audio/ogg", "missing"}

\* String.prototype.includes for the mimeType values above.
Includes(m, tok) ==
  \/ tok = "mp4" /\ m = "audio/mp4"
  \/ tok = "m4a" /\ m = "audio/x-m4a"
  \/ tok = "webm" /\ m = "audio/webm"

\* audioStreams lists: the stream at position k has the url StreamUrl(k) or
\* none that is usable.
StreamLists ==
  UNION {{[k \in 1..n |-> [mimeType |-> f[k][1],
                           url |-> IF f[k][2] THEN StreamUrl(k) ELSE NoUrl]] :
            f \in [1..n -> Mimes \X BOOLEAN]} : n \in 0..MaxStreams}

\* What fetching and reading /search, and /streams/<id>, can come to.
SearchOutcomes == {"throw", "notok", "badjson", "noitems", "novideo", "ok"}
StreamOutcomes == {"throw", "notok", "badjson", "list"}

\* audioStreams.find(s => toks.some(t => s.mimeType.includes(t))): position
\* of the first match, 0 for undefined.
FindMime(list, toks) ==
  IF \E i \in 1..Len(list) : \E t \in toks : Includes(list[i].mimeType, t)
  THEN CHOOSE i \in 1..Len(list) :
         /\ \E t \in toks : Includes(list[i].mimeType, t)
         /\ \A j \in 1..(i - 1) : \A t \in toks : ~Includes(list[j].mimeType, t)
  ELSE 0

\* The first find reads s.mimeType.includes of a stream without mimeType
\* (a TypeError) before it comes to a match.
BestStreamThrows(list) ==
  \E j \in 1..Len(list) :
     /\ list[j].mimeType = "missing"
     /\ \A k \in 1..(j - 1) : \A t \in {"mp4", "m4a"} : ~Includes(list[k].mimeType, t)

\* A faulty selection that prefers webm.
BestStreamWebmFirst(list) ==
  IF FindMime(list, {"webm"}) # 0 THEN FindMime(list, {"webm"})
  ELSE IF FindMime(list, {"mp4", "m4a"}) # 0 THEN FindMime(list, {"mp4", "m4a"})
  ELSE 1
\* bestStream: find(mp4 or m4a) || find(webm) || audioStreams[0], as a
\* position of the non-empty list.
BestStream(list) ==
  IF FindMime(list, {"mp4", "m4a"}) # 0 THEN FindMime(list, {"mp4", "m4a"})
  ELSE IF FindMime(list, {"webm"}) # 0 THEN FindMime(list, {"webm"})
  ELSE 1

\* How a call completed: not yet, with a return value, or with an exception.
Pending == [kind |-> "pending", url |-> NoUrl]
Returned(u) == [kind |-> "returned", url |-> u]
Raised == [kind |-> "raised", url |-> NoUrl]

\* A faulty loop body whose exceptions reach the caller.
CaughtNot(thrown) == FALSE
\* try { ... } catch (e) { continue; }: an exception thrown in the loop body
\* is caught.
Caught(thrown) == thrown

\* `continue`, or the end of the loop body: the next instance, or
\* `return null` after the last one.
Continue ==
  IF rsPos < Len(rsOrder)
  THEN /\ rsPos' = rsPos + 1
       /\ rsPhase' = "search"
       /\ UNCHANGED rsResult
  ELSE /\ rsPhase' = "done"
       /\ rsResult' = Returned(NoUrl)
       /\ UNCHANGED rsPos

\* An exception in the loop body.
Throw ==
  IF Caught(TRUE)
  THEN Continue
  ELSE /\ rsPhase' = "done"
       /\ rsResult' = Raised
       /\ UNCHANGED rsPos

\* A faulty shuffle that keeps all but one of the instances.
ShuffleTop(pool) ==
  {[i \in 1..(Len(pool) - 1) |-> pool[f[i]]] : f \in Permutations(1..Len(pool))}
\* [...STREAM_APIS].sort(() => Math.random() - 0.5): the copy, in any order.
Shuffle(pool) ==
  {[i \in 1..Len(pool) |-> pool[f[i]]] : f \in Permutations(1..Len(pool))}

\* getStreamUrl is called: the query is built, the instances are shuffled
\* and the loop enters its first round.
getStreamUrl_call ==
  /\ rsPhase \in {"idle", "done"}
  /\ rsPhase' = "search"
  /\ rsOrder' \in Shuffle(STREAM_APIS)
  /\ rsTried' = <<>>
  /\ rsPos' = 1
  /\ rsList' = <<>>
  /\ rsPick' = 0
  /\ UNCHANGED STREAM_APIS
  /\ rsResult' = Pending
  /\ UNCHANGED <<appVars, genVars, catVars>>

\* Step 1 of a round: fetch /search, read the items, find the video id.
getStreamUrl_search ==
  /\ rsPhase = "search"
  /\ rsTried' = Append(rsTried, rsOrder[rsPos])
  /\ rsList' = <<>>
  /\ rsPick' = 0
  /\ UNCHANGED <<STREAM_APIS, rsOrder>>
  /\ \E o \in SearchOutcomes :
       IF o = "ok"
       THEN rsPhase' = "streams" /\ UNCHANGED <<rsPos, rsResult>>
       ELSE IF o \in {"throw", "badjson"} THEN Throw ELSE Continue
  /\ UNCHANGED <<appVars, genVars, catVars>>

\* Step 2 of a round: fetch /streams/<id>, read audioStreams, choose
\* bestStream and return its url.
getStreamUrl_streams ==
  /\ rsPhase = "streams"
  /\ UNCHANGED <<STREAM_APIS, rsOrder, rsTried>>
  /\ \E o \in StreamOutcomes :
       IF o = "list"
       THEN \E list \in StreamLists :
              /\ rsList' = list
              /\ IF Len(list) = 0
                 THEN rsPick' = 0 /\ Continue
                 ELSE IF BestStreamThrows(list)
                      THEN rsPick' = 0 /\ Throw
                      ELSE /\ rsPick' = BestStream(list)
                           /\ rsPhase' = "done"
                           /\ rsResult' = Returned(list[BestStream(list)].url)
                           /\ UNCHANGED rsPos
       ELSE /\ UNCHANGED <<rsList, rsPick>>
            /\ IF o \in {"throw", "badjson"} THEN Throw ELSE Continue
  /\ UNCHANGED <<appVars, genVars, catVars>>

\* ------------------------------------------- services: how a call completes
NotYet == [kind |-> "pending", value |-> <<>>]
Ok(v) == [kind |-> "returned", value |-> v]
Failed == [kind |-> "raised", value |-> <<>>]

\* ------------------------------------------------ getAIRecommendations
\* The list both return statements of the failure paths give: "Happy Vibes",
\* "Relaxing Rain", "Power Workout", "Focus Flow", "Late Night Jazz".
StaticTitles == <<101, 102, 103, 104, 105>>

\* Titles the provider answers with: "1", "2", ..., "n".
ProviderTitles(n) == [i \in 1..n |-> i]

\* How one call goes: the module has no client (`ai` is null); the request
\* throws; the response has no text; the text is not JSON; the text is a
\* JSON array of strings.
RecOutcomes == {"noclient", "throw", "notext", "badjson", "ok"}

\* A faulty getAIRecommendations without its try / catch.
getAIRecommendationsNoCatch(o, titles) ==
  IF o = "noclient" THEN Ok(StaticTitles)
  ELSE IF o \in {"throw", "badjson"} THEN Failed
  ELSE IF o = "notext" THEN Ok(<<>>)
  ELSE Ok(titles)
\* getAIRecommendations(mood): `if (!ai) return [static]`; inside the try,
\* `if (response.text) return JSON.parse(response.text); return [];`; the
\* catch returns the static list.
getAIRecommendations(o, titles) ==
  IF o = "noclient" THEN Ok(StaticTitles)
  ELSE IF o \in {"throw", "badjson"} THEN Ok(StaticTitles)
  ELSE IF o = "notext" THEN Ok(<<>>)
  ELSE Ok(titles)

\* ------------------------------------------------ catalog (iTunes service)
\* The k-th song the catalog lists for title t (audioUrl: '', previewUrl
\* from the provider).
Hit(t, k) == [id |-> 10 * t + k, audioUrl |-> NoUrl,
              previewUrl |-> PreviewUrl(10 * t + k), isLocal |-> FALSE,
   lyrics |-> 0]

\* FALLBACK_SONGS: 'fb1' and 'fb2', each with an audioUrl and no previewUrl.
FALLBACK_SONGS ==
  << [id |-> 91, audioUrl |-> StreamUrl(91), previewUrl |-> NoUrl, isLocal |-> FALSE,
   lyrics |-> 0],
     [id |-> 92, audioUrl |-> StreamUrl(92), previewUrl |-> NoUrl, isLocal |-> FALSE,
   lyrics |-> 0] >>

\* How one fetch of the search endpoint goes: fetchWithTimeout throws
\* (network failure, abort by the timer); the status is not ok; the body is
\* not JSON or has no `results` array; `results` has 0, 1 or 2 items.
ItunesOutcomes == {"throw", "notok", "badjson", "none", "one", "two"}

\* data.results.map(...) for a payload with n items about title t.
ItunesResults(t, o) ==
  IF o = "one" THEN <<Hit(t, 1)>>
  ELSE IF o = "two" THEN <<Hit(t, 1), Hit(t, 2)>>
  ELSE <<>>

\* searchSongs(query) for a non-empty query t: every exception of the try
\* block (`throw new Error("iTunes API Error")` included) ends in
\* `return FALLBACK_SONGS`.
searchSongs(t, o) ==
  IF o \in {"throw", "notok", "badjson"} THEN Ok(FALLBACK_SONGS)
  ELSE Ok(ItunesResults(t, o))

\* ------------------------------------------- playlist generation pipeline
\* suggestedTitles.slice(0, 5)
Slice5(titles) == SubSeq(titles, 1, IF Len(titles) < 5 THEN Len(titles) ELSE 5)

\* A faulty loop that pushes the last song of every list.
RECURSIVE NewPlaylistLast(_)
NewPlaylistLast(results) ==
  IF Len(results) = 0 THEN <<>>
  ELSE LET resList == Head(results)
       IN  (IF Len(resList) > 0 THEN <<resList[Len(resList)]>> ELSE <<>>)
             \o NewPlaylistLast(Tail(results))
\* results.forEach(resList => { if (resList.length > 0)
\*   newPlaylist.push(resList[0]); })
RECURSIVE NewPlaylist(_)
NewPlaylist(results) ==
  IF Len(results) = 0 THEN <<>>
  ELSE LET resList == Head(results)
       IN  (IF Len(resList) > 0 THEN <<resList[1]>> ELSE <<>>)
             \o NewPlaylist(Tail(results))

\* handleAIGenerate up to the end of `await getAIRecommendations(aiPrompt)`.
handleAIGenerate_recommend ==
  /\ aiPhase \in {"idle", "done"}
  /\ \E o \in RecOutcomes, n \in 0..MaxTitles :
       /\ aiRec' = getAIRecommendations(o, ProviderTitles(n))
       /\ aiOut' = o
  /\ aiPhase' = IF aiRec'.kind = "raised" THEN "done" ELSE "search"
  /\ aiResults' = <<>>
  /\ aiPlaylist' = <<>>
  /\ UNCHANGED <<appVars, rsVars, catVars>>

\* One of the promises of `suggestedTitles.slice(0, 5).map(title =>
\* searchSongs(title))` settles; Promise.all keeps the results in the order
\* of the titles.
handleAIGenerate_search ==
  /\ aiPhase = "search"
  /\ Len(aiResults) < Len(Slice5(aiRec.value))
  /\ \E o \in ItunesOutcomes :
       aiResults' = Append(aiResults,
                           searchSongs(Slice5(aiRec.value)[Len(aiResults) + 1], o))
  /\ UNCHANGED <<aiPhase, aiOut, aiRec, aiPlaylist>>
  /\ UNCHANGED <<appVars, rsVars, catVars>>

\* `await Promise.all(promises)` is over: it rejects when a promise was
\* rejected, else the forEach loop builds newPlaylist.
handleAIGenerate_build ==
  /\ aiPhase = "search"
  /\ Len(aiResults) = Len(Slice5(aiRec.value))
  /\ aiPlaylist' =
       IF \E i \in 1..Len(aiResults) : aiResults[i].kind = "raised"
       THEN <<>>
       ELSE NewPlaylist([i \in 1..Len(aiResults) |-> aiResults[i].value])
  /\ aiPhase' = "done"
  /\ UNCHANGED <<aiOut, aiRec, aiResults>>
  /\ UNCHANGED <<appVars, rsVars, catVars>>

\* ------------------------------------------------ catalog (Audius service)
\* cachedHost === null / a host of the directory response / the fallback
\* 'https://discoveryprovider.audius.co'.
NoHost == [kind |-> "null", n |-> 0]
DirHost(i) == [kind |-> "directory", n |-> i]
FallbackHost == [kind |-> "fallback", n |-> 0]

\* How the lookup `fetch(AUDIUS_ROOT)` goes: fetch throws; the body is not
\* JSON; the JSON has no `data`; `data` is empty; `data` lists hosts.
LookupOutcomes == {"throw", "badjson", "nodata", "empty", "hosts"}

\* A faulty getHost that also caches the fallback.
CacheAfterAlways(o, randomHost, cache) ==
  IF o = "hosts" THEN randomHost ELSE FallbackHost
\* cachedHost after a lookup: `cachedHost = randomHost` happens only inside
\* `if (json.data && json.data.length > 0)`.
CacheAfter(o, randomHost, cache) ==
  IF o = "hosts" THEN randomHost ELSE cache

\* What getHost returns after a lookup: randomHost, or the fallback after the
\* catch or the skipped if.
getHost(o, randomHost) ==
  IF o = "hosts" THEN Ok(randomHost) ELSE Ok(FallbackHost)

\* FALLBACK_SONGS of this service: 'local-1', 'local-2', 'local-3'.
FALLBACK_SONGS_audius ==
  << [id |-> 81, audioUrl |-> StreamUrl(81), previewUrl |-> NoUrl, isLocal |-> FALSE,
   lyrics |-> 0],
     [id |-> 82, audioUrl |-> StreamUrl(82), previewUrl |-> NoUrl, isLocal |-> FALSE,
   lyrics |-> 0],
     [id |-> 83, audioUrl |-> StreamUrl(83), previewUrl |-> NoUrl, isLocal |-> FALSE,
   lyrics |-> 0] >>

\* Items of a `data` array: usable, or without id or title.
AudiusItems == {[id |-> 1, ok |-> TRUE], [id |-> 2, ok |-> TRUE],
                [id |-> 3, ok |-> FALSE]}
AudiusPayloads == {<<>>} \cup {<<a>> : a \in AudiusItems}
                    \cup {<<a, b>> : a, b \in AudiusItems}

\* data.data.map(mapAudiusSong).filter(s => s)
RECURSIVE MapAudius(_)
MapAudius(items) ==
  IF Len(items) = 0 THEN <<>>
  ELSE (IF Head(items).ok
        THEN <<[id |-> Head(items).id, audioUrl |-> NoUrl,
                previewUrl |-> NoUrl, isLocal |-> FALSE,
   lyrics |-> 0]>>
        ELSE <<>>) \o MapAudius(Tail(items))

\* How the fetch of fetchJson goes: fetch throws; the status is not ok; the
\* body is not JSON; the JSON has no `data`; `data` is not an array (an
\* object, a string); `data` is an array.
FetchOutcomes == {"throw", "notok", "badjson", "nodata", "notarray", "list"}

\* fetchJson returned null (its catch), or `data && data.data` is falsy.
NoData(o) == o \in {"throw", "notok", "badjson", "nodata"}

\* searchSongs(query) for a non-empty query: nothing catches the TypeError
\* of `data.data.map` on a value without a map method.
searchSongs_audius(o, items) ==
  IF NoData(o) THEN Ok(<<>>)
  ELSE IF o = "notarray" THEN Failed
  ELSE Ok(MapAudius(items))

\* getFeaturedSongs(): the same steps inside try / catch, then
\* `return FALLBACK_SONGS`.
getFeaturedSongs_audius(o, items) ==
  IF NoData(o) \/ o = "notarray" THEN Ok(FALLBACK_SONGS_audius)
  ELSE Ok(MapAudius(items))

\* The operations of the service; searchSongs('') returns getFeaturedSongs().
AudiusOps == {"searchSongs", "searchSongs('')", "getFeaturedSongs", "getStreamUrl"}

\* No call has completed yet.
NoHostCall == [kind |-> "none", outcome |-> "none", atCall |-> NoHost,
               before |-> NoHost, ret |-> NotYet]
NoCatCall == [op |-> "none", outcome |-> "none", result |-> NotYet]

\* getStreamUrl(songId) once getHost has returned host.
StreamUrlAt(host) == Ok(<<host, "/v1/tracks/", "/stream">>)

\* An operation of the service is called and reaches `await getHost()`:
\* getHost returns cachedHost at once, or starts the directory lookup.
Audius_call ==
  /\ BagCardinality(calls) < MaxCalls
  /\ \E op \in AudiusOps :
       IF cachedHost # NoHost
       THEN /\ hostLast' = [kind |-> "cached", outcome |-> "none",
                            atCall |-> cachedHost, before |-> cachedHost,
                            ret |-> Ok(cachedHost)]
            /\ IF op = "getStreamUrl"
               THEN /\ catLast' = [op |-> op, outcome |-> "none",
                                   result |-> StreamUrlAt(cachedHost)]
                    /\ UNCHANGED calls
               ELSE /\ calls' = calls (+) SetToBag({[op |-> op, phase |-> "fetch"]})
                    /\ UNCHANGED catLast
       ELSE /\ calls' = calls (+) SetToBag({[op |-> op, phase |-> "host"]})
            /\ UNCHANGED <<hostLast, catLast>>
  /\ UNCHANGED cachedHost
  /\ UNCHANGED <<appVars, rsVars, genVars>>

\* The directory lookup of one suspended getHost call settles.
getHost_lookup ==
  /\ \E c \in BagToSet(calls), o \in LookupOutcomes, n \in 1..MaxHosts :
       /\ c.phase = "host"
       /\ \E i \in 1..n :
            LET ret == getHost(o, DirHost(i))
            IN  /\ cachedHost' = CacheAfter(o, DirHost(i), cachedHost)
                /\ hostLast' = [kind |-> "lookup", outcome |-> o,
                                atCall |-> NoHost, before |-> cachedHost,
                                ret |-> ret]
                /\ IF c.op = "getStreamUrl"
                   THEN /\ catLast' = [op |-> c.op, outcome |-> "none",
                                       result |-> IF ret.kind = "raised" THEN Failed
                                                  ELSE StreamUrlAt(ret.value)]
                        /\ calls' = calls (-) SetToBag({c})
                   ELSE /\ calls' = (calls (-) SetToBag({c}))
                                      (+) SetToBag({[c EXCEPT !.phase = "fetch"]})
                        /\ UNCHANGED catLast
  /\ UNCHANGED <<appVars, rsVars, genVars>>

\* The fetch of one suspended fetchJson call settles, and searchSongs or
\* getFeaturedSongs runs to its end.
fetchJson_done ==
  /\ \E c \in BagToSet(calls), o \in FetchOutcomes, items \in AudiusPayloads :
       /\ c.phase = "fetch"
       /\ o # "list" => items = <<>>
       /\ calls' = calls (-) SetToBag({c})
       /\ catLast' = [op |-> c.op, outcome |-> o,
                      result |-> IF c.op = "searchSongs"
                                 THEN searchSongs_audius(o, items)
                                 ELSE getFeaturedSongs_audius(o, items)]
  /\ UNCHANGED <<cachedHost, hostLast>>
  /\ UNCHANGED <<appVars, rsVars, genVars>>

\* ---------------------------------- catalog (iTunes service), on its own
\* One of the trendingSearches, chosen at random.
TrendingTitle == 9

\* getFeaturedSongs(): searchSongs(randomQuery).
getFeaturedSongs(o) == searchSongs(TrendingTitle, o)

\* searchSongs(query) is called and runs to its end; query 0 is ''.
searchSongs_call ==
  /\ \E query \in {0, 1}, o \in ItunesOutcomes :
       catLast' = [op |-> IF query = 0 THEN "iTunes searchSongs('')"
                          ELSE "iTunes searchSongs",
                   outcome |-> o,
                   result |-> IF query = 0 THEN getFeaturedSongs(o)
                              ELSE searchSongs(query, o)]
  /\ UNCHANGED <<cachedHost, calls, hostLast>>
  /\ UNCHANGED <<appVars, rsVars, genVars>>

\* getFeaturedSongs() is called and runs to its end.
getFeaturedSongs_call ==
  /\ \E o \in ItunesOutcomes :
       catLast' = [op |-> "iTunes getFeaturedSongs", outcome |-> o,
                   result |-> getFeaturedSongs(o)]
  /\ UNCHANGED <<cachedHost, calls, hostLast>>
  /\ UNCHANGED <<appVars, rsVars, genVars>>

\* ------------------------------------------------------- specification
\* The state after the first render and its effects, on a host with
\* (surface) or without the Media Session API: with it, the playback-state
\* effect has published 'paused'.
InitApp(surface) ==
  /\ variant \in {"pool", "id"}
  /\ hasMediaSession = surface
  /\ msPlaybackState = (IF surface THEN PlaybackState(FALSE) ELSE "none")
  /\ msMetadata = 0
  /\ songs = <<>>
  /\ librarySongs = <<>>
  /\ songsIsLibrary = FALSE
  /\ currentSong = NoSong
  /\ isPlaying = FALSE
  /\ isResolvingAudio = FALSE
  /\ usingPreview = FALSE
  /\ pending = EmptyBag
  /\ capturedIsPlaying = FALSE
  /\ audioSrc = NoUrl
  /\ audioCmd = "none"
  /\ audioTime = 0
  /\ playPending = FALSE
  /\ requests = {}
  /\ skipTimers = 0
  /\ curIsQueueObj = FALSE
  /\ aiClosure = NoClosure
  /\ lastOp = "init"
  /\ lastArg = 0
  /\ lastUp = FALSE
  /\ navRun = 0
  /\ navStart = 0
  /\ navSeen = {}
  /\ timerFor = 0
  /\ isPlayerFull = FALSE
  /\ lyricsLoading = FALSE
  /\ lyricCalls = EmptyBag
  /\ lyricsDone = {}
  /\ view = "home"
  /\ backListeners = IF variant = "id"
                     THEN <<[full |-> FALSE, view |-> "home"]>>
                     ELSE <<>>
  /\ lastBackPress = 0
  /\ clock = BackWindow
  /\ exited = FALSE
  /\ showToast = FALSE
  /\ rsPhase = "idle"
  /\ STREAM_APIS = [i \in 1..MaxInstances |-> i]
  /\ rsPos = 0
  /\ rsOrder = <<>>
  /\ rsTried = <<>>
  /\ rsList = <<>>
  /\ rsPick = 0
  /\ rsResult = Pending
  /\ aiPhase = "idle"
  /\ aiOut = "none"
  /\ aiRec = NotYet
  /\ aiResults = <<>>
  /\ aiPlaylist = <<>>
  /\ cachedHost = NoHost
  /\ calls = EmptyBag
  /\ hostLast = NoHostCall
  /\ catLast = NoCatCall

\* No getStreamUrl(title, artist) call has built a query.
InitOn(surface) ==
  /\ InitApp(surface)
  /\ title = <<>>
  /\ artist = <<>>
  /\ rsQuery = NoQuery

\* The two Apps on a host without the Media Session API.
Init == InitOn(FALSE)

Next ==
  \/ PlayFromList_pool
  \/ PlayFromLibrary_pool
  \/ ResolveDone_pool
  \/ TogglePlay_pool
  \/ handleAddToQueue_pool
  \/ handleImportMusic_pool
  \/ handleSearch_pool
  \/ Next_pool
  \/ Prev_pool
  \/ Ended_pool
  \/ onError_pool
  \/ PlaySettled_pool
  \/ TimeUpdate
  \/ PlayFromList_id
  \/ PlayFromLibrary_id
  \/ UrlArrived_id
  \/ TogglePlay_id
  \/ handleAddToQueue_id
  \/ handleImportMusic_id
  \/ handleSearch_id
  \/ Next_id
  \/ Prev_id
  \/ Ended_id
  \/ onError_id
  \/ SkipTimer_id

Spec == Init /\ [][Next]_vars

\* The pool-based App on its own, where every getStreamUrl call in flight
\* settles in the end: each fetch of the call responds or is aborted by the
\* timer of fetchWithTimeout, and the loop has finitely many rounds.
InitLive == Init /\ variant = "pool"

NextLive ==
  \/ PlayFromList_pool
  \/ PlayFromLibrary_pool
  \/ ResolveDone_pool
  \/ TogglePlay_pool
  \/ handleAddToQueue_pool
  \/ handleImportMusic_pool
  \/ handleSearch_pool
  \/ Next_pool
  \/ Prev_pool
  \/ Ended_pool
  \/ onError_pool
  \/ PlaySettled_pool
  \/ TimeUpdate

SpecLive == InitLive /\ [][NextLive]_vars /\ WF_vars(ResolveDone_pool)

\* The id-keyed App on a host with or without the Media Session API.
InitMedia == variant = "id" /\ \E surface \in BOOLEAN : InitOn(surface)

NextMedia ==
  \/ PlayFromList_id
  \/ PlayFromLibrary_id
  \/ UrlArrived_id
  \/ TogglePlay_id
  \/ handleAddToQueue_id
  \/ handleImportMusic_id
  \/ handleSearch_id
  \/ Next_id
  \/ Prev_id
  \/ Ended_id
  \/ onError_id
  \/ SkipTimer_id
  \/ TimeUpdate
  \/ MediaSession_setPlaying
  \/ MediaSession_stop
  \/ MediaSession_seek

SpecMedia == InitMedia /\ [][NextMedia]_vars

\* The two Apps with the playlist generator of the AI view and, of the other
\* handlers, those of the home view and of the player that set the queue,
\* the current song or isPlaying.
NextAI ==
  \/ handleSearch_pool
  \/ PlayFromList_pool
  \/ ResolveDone_pool
  \/ TogglePlay_pool
  \/ Next_pool
  \/ PlaySettled_pool
  \/ handleSearch_id
  \/ PlayFromList_id
  \/ UrlArrived_id
  \/ TogglePlay_id
  \/ Next_id
  \/ handleAIGenerate_pool
  \/ AIGenerated_pool
  \/ handleAIGenerate_id
  \/ AIGenerated_id

SpecAI == Init /\ [][NextAI]_vars

\* ------------------------------ pool-based App: full player and lyrics
\* The mini player, shown while a song is current and the full player is
\* closed, is clicked: setIsPlayerFull(true).  The lyrics effect runs at the
\* commit.
OpenPlayer_pool ==
  /\ variant = "pool"
  /\ currentSong # NoSong
  /\ ~isPlayerFull
  /\ isPlayerFull' = TRUE
  /\ IF NeedsLyrics(TRUE, currentSong, lyricsLoading)
     THEN /\ lyricsLoading' = TRUE
          /\ lyricCalls' = lyricCalls (+) SetToBag({currentSong.id})
     ELSE UNCHANGED <<lyricsLoading, lyricCalls>>
  /\ lastOp' = "open"
  /\ lastArg' = currentSong.id
  /\ UNCHANGED <<variant, songs, librarySongs, songsIsLibrary, currentSong,
                 isPlaying, capturedIsPlaying, audioSrc, audioCmd, audioTime,
                 lyricsDone>>
  /\ UNCHANGED <<view, backListeners, lastBackPress, clock, exited, showToast>>
  /\ UNCHANGED poolOnly
  /\ UNCHANGED idOnly
  /\ UNCHANGED aiClosure
  /\ HistOps

\* The chevron of the full player: setIsPlayerFull(false); the effect runs
\* and finds isPlayerFull false.
ClosePlayer_pool ==
  /\ variant = "pool"
  /\ isPlayerFull
  /\ isPlayerFull' = FALSE
  /\ lastOp' = "close"
  /\ lastArg' = currentSong.id
  /\ UNCHANGED <<variant, songs, librarySongs, songsIsLibrary, currentSong,
                 isPlaying, capturedIsPlaying, audioSrc, audioCmd, audioTime,
                 lyricsLoading, lyricCalls, lyricsDone>>
  /\ UNCHANGED <<view, backListeners, lastBackPress, clock, exited, showToast>>
  /\ UNCHANGED poolOnly
  /\ UNCHANGED idOnly
  /\ UNCHANGED aiClosure
  /\ HistOps

\* setCurrentSong(prev => prev ? ({...prev, lyrics: text}) : null); the
\* text is named by the id of the song it was fetched for.
AttachLyrics(cur, id) ==
  IF cur # NoSong THEN [cur EXCEPT !.lyrics = id] ELSE NoSong

\* setSongs(prev => prev.map(s => s.id === currentSong.id ? ({...s, lyrics:
\* text}) : s)), currentSong being the song of the effect's closure.
AttachLyricsInQueue(q, id) ==
  [i \in 1..Len(q) |-> IF q[i].id = id THEN [q[i] EXCEPT !.lyrics = id]
                       ELSE q[i]]

\* The continuation of fetchLyrics after `await getLyrics(...)`: text is
\* the lyrics (found) or null.  The deps of the lyrics effect are as they
\* were, so it does not run again.
getLyrics_done ==
  /\ variant = "pool"
  /\ \E id \in BagToSet(lyricCalls), found \in BOOLEAN :
       /\ lyricCalls' = lyricCalls (-) SetToBag({id})
       /\ lyricsDone' = lyricsDone \cup {id}
       /\ IF found
          THEN /\ currentSong' = AttachLyrics(currentSong, id)
               /\ songs' = AttachLyricsInQueue(songs, id)
               /\ songsIsLibrary' = FALSE
               /\ UNCHANGED <<isPlaying, isResolvingAudio, usingPreview,
                              pending>>
               /\ Commit_pool(TRUE, TRUE, audioCmd, playPending)
          ELSE /\ UNCHANGED <<currentSong, songs, songsIsLibrary, isPlaying,
                              isResolvingAudio, usingPreview, pending>>
               /\ Commit_pool(FALSE, FALSE, audioCmd, playPending)
       /\ lastOp' = IF found THEN "lyrics" ELSE "nolyrics"
       /\ lastArg' = id
  /\ lyricsLoading' = FALSE
  /\ UNCHANGED <<variant, librarySongs, isPlayerFull>>
  /\ UNCHANGED <<view, backListeners, lastBackPress, clock, exited, showToast>>
  /\ UNCHANGED idOnly
  /\ UNCHANGED aiClosure
  /\ HistOps

\* The pool-based App with its full player: the handlers that set the
\* queue or the current song, the player's open and close controls and the
\* lyrics fetch.
NextLyrics ==
  \/ handleSearch_pool
  \/ PlayFromList_pool
  \/ ResolveDone_pool
  \/ Next_pool
  \/ OpenPlayer_pool
  \/ ClosePlayer_pool
  \/ getLyrics_done

SpecLyrics == InitLive /\ [][NextLyrics]_vars

\* --------------------------- id-keyed App: views, player, back button
\* What the controls of the views and the back button leave alone.
playVars == <<variant, songs, librarySongs, songsIsLibrary, currentSong,
              isPlaying, capturedIsPlaying, audioSrc, audioCmd, audioTime,
              aiClosure>>

\* A button of the bottom bar (rendered while the full player is closed),
\* the logo or the search button of the header: setView(v).
setView_id ==
  /\ variant = "id"
  /\ ~isPlayerFull
  /\ Len(backListeners) < MaxListeners
  /\ \E v \in Views \ {view} :
       /\ view' = v
       /\ BackEffect(isPlayerFull, v)
  /\ lastOp' = "view"
  /\ lastArg' = 0
  /\ UNCHANGED <<isPlayerFull, lastBackPress, clock, exited, showToast>>
  /\ UNCHANGED <<playVars, poolOnly, idOnly>>
  /\ UNCHANGED <<lyricsLoading, lyricCalls, lyricsDone>>
  /\ HistOps

\* The floating player, rendered while a song is current and the full player
\* is closed: setIsPlayerFull(true).
OpenPlayer_id ==
  /\ variant = "id"
  /\ currentSong # NoSong
  /\ ~isPlayerFull
  /\ Len(backListeners) < MaxListeners
  /\ isPlayerFull' = TRUE
  /\ BackEffect(TRUE, view)
  /\ lastOp' = "open"
  /\ lastArg' = currentSong.id
  /\ UNCHANGED <<view, lastBackPress, clock, exited, showToast>>
  /\ UNCHANGED <<playVars, poolOnly, idOnly>>
  /\ UNCHANGED <<lyricsLoading, lyricCalls, lyricsDone>>
  /\ HistOps

\* The chevron of the full player: setIsPlayerFull(false).
ClosePlayer_id ==
  /\ variant = "id"
  /\ isPlayerFull
  /\ Len(backListeners) < MaxListeners
  /\ isPlayerFull' = FALSE
  /\ BackEffect(FALSE, view)
  /\ lastOp' = "close"
  /\ lastArg' = currentSong.id
  /\ UNCHANGED <<view, lastBackPress, clock, exited, showToast>>
  /\ UNCHANGED <<playVars, poolOnly, idOnly>>
  /\ UNCHANGED <<lyricsLoading, lyricCalls, lyricsDone>>
  /\ HistOps

\* One 'backButton' listener, with the closure l, at time now.  st is what
\* the listeners of this press have done so far: the cells as their setters
\* leave them, the ref, and whether exitApp was called.
BackListener(l, st, now) ==
  IF l.full THEN [st EXCEPT !.full = FALSE]
  ELSE IF l.view # "home" THEN [st EXCEPT !.view = "home"]
  ELSE IF now - st.last < BackWindow THEN [st EXCEPT !.exit = TRUE]
  ELSE [st EXCEPT !.last = now, !.toast = TRUE]

\* The listeners are called one after the other, oldest first.
RECURSIVE RunBackListeners(_, _, _)
RunBackListeners(ls, st, now) ==
  IF ls = <<>> THEN st
  ELSE RunBackListeners(Tail(ls), BackListener(Head(ls), st, now), now)

\* The hardware back button is pressed.
backButton ==
  /\ variant = "id"
  /\ LET st == RunBackListeners(
                 backListeners,
                 [full |-> isPlayerFull, view |-> view, last |-> lastBackPress,
                  toast |-> showToast, exit |-> FALSE],
                 clock)
     IN  /\ (st.full # isPlayerFull \/ st.view # view)
              => Len(backListeners) < MaxListeners
         /\ isPlayerFull' = st.full
         /\ view' = st.view
         /\ lastBackPress' = st.last
         /\ showToast' = st.toast
         /\ exited' = st.exit
         /\ BackEffect(st.full, st.view)
  /\ lastOp' = "back"
  /\ lastArg' = 0
  /\ UNCHANGED clock
  /\ UNCHANGED <<playVars, poolOnly, idOnly>>
  /\ UNCHANGED <<lyricsLoading, lyricCalls, lyricsDone>>
  /\ HistOps

\* setTimeout(() => setShowToast(false), 2000) of a back press fires.
ToastTimeout ==
  /\ variant = "id"
  /\ showToast
  /\ showToast' = FALSE
  /\ lastOp' = "toast"
  /\ lastArg' = 0
  /\ UNCHANGED <<isPlayerFull, view, backListeners, lastBackPress, clock,
                 exited>>
  /\ UNCHANGED <<playVars, poolOnly, idOnly>>
  /\ UNCHANGED <<lyricsLoading, lyricCalls, lyricsDone>>
  /\ HistOps

\* 1000 ms pass.
Tick ==
  /\ variant = "id"
  /\ clock < MaxClock
  /\ clock' = clock + 1
  /\ lastOp' = "tick"
  /\ lastArg' = 0
  /\ UNCHANGED <<isPlayerFull, view, backListeners, lastBackPress, exited,
                 showToast>>
  /\ UNCHANGED <<playVars, poolOnly, idOnly>>
  /\ UNCHANGED <<lyricsLoading, lyricCalls, lyricsDone>>
  /\ HistOps

\* The id-keyed App with its views, its full player and the back button.
InitBack == Init /\ variant = "id"

NextBack ==
  \/ handleSearch_id
  \/ PlayFromList_id
  \/ setView_id
  \/ OpenPlayer_id
  \/ ClosePlayer_id
  \/ backButton
  \/ ToastTimeout
  \/ Tick

SpecBack == InitBack /\ [][NextBack]_vars

\* ------------------------------------ getStreamUrl: the search query
RECURSIVE SeqsUpTo(_, _)
SeqsUpTo(S, n) ==
  IF n = 0 THEN {<<>>}
  ELSE LET shorter == SeqsUpTo(S, n - 1)
       IN  shorter \cup {Append(q, x) : q \in shorter, x \in S}

\* A title is a sequence of tokens: a word, a parenthesis, or the start of
\* a credit.  An artist is the sequence of the names its commas separate.
TitleInputs == SeqsUpTo({"word", "(", ")", "feat.", "ft."}, MaxTitleLen)
ArtistInputs == SeqsUpTo({"A", "B"}, MaxArtists) \ {<<>>}

\* title.replace(/\(.*\)/, ''): the leftmost match begins at the first
\* '(' that has a ')' after it and, .* being greedy, ends at the last ')'.
ReplaceParens(t) ==
  LET opens == {i \in 1..Len(t) : t[i] = "("}
      closes == {i \in 1..Len(t) : t[i] = ")"}
      first == CHOOSE i \in opens : \A j \in opens : i <= j
      last == CHOOSE i \in closes : \A j \in closes : i >= j
  IN  IF opens # {} /\ closes # {} /\ first < last
      THEN SubSeq(t, 1, first - 1) \o SubSeq(t, last + 1, Len(t))
      ELSE t

\* .replace(/feat\..*/, ''): from the first "feat." to the end.
ReplaceFeat(t) ==
  LET feats == {i \in 1..Len(t) : t[i] = "feat."}
      first == CHOOSE i \in feats : \A j \in feats : i <= j
  IN  IF feats # {} THEN SubSeq(t, 1, first - 1) ELSE t

\* const cleanTitle = title.replace(/\(.*\)/, '').replace(/feat\..*/, '').trim()
cleanTitle(t) == ReplaceFeat(ReplaceParens(t))

\* const cleanArtist = artist.split(',')[0].trim()
cleanArtist(a) == a[1]

\* const query = `${cleanTitle} ${cleanArtist} official audio`
Query(t, a) == <<cleanTitle(t), cleanArtist(a), "official audio">>

\* getStreamUrl(title, artist) up to its query.
getStreamUrl_query ==
  /\ rsQuery = NoQuery
  /\ rsQuery' = Query(title, artist)
  /\ UNCHANGED <<title, artist>>
  /\ UNCHANGED <<variant, songs, librarySongs, songsIsLibrary, currentSong,
                 isPlaying, capturedIsPlaying, audioSrc, audioCmd, audioTime,
                 aiClosure, hasMediaSession, lastOp, lastArg, lastUp, navRun,
                 navStart, navSeen, timerFor, isPlayerFull>>
  /\ UNCHANGED <<poolOnly, idOnly, lyricsLoading, lyricCalls, lyricsDone>>
  /\ UNCHANGED <<view, backListeners, lastBackPress, clock, exited, showToast>>
  /\ UNCHANGED <<rsVars, genVars, catVars>>

\* One getStreamUrl call with any title and artist, up to its query.
InitQuery ==
  /\ InitApp(FALSE)
  /\ variant = "pool"
  /\ title \in TitleInputs
  /\ artist \in ArtistInputs
  /\ rsQuery = NoQuery

NextQuery == getStreamUrl_query

SpecQuery == InitQuery /\ [][NextQuery]_vars

\* One getStreamUrl(title, artist) call after another, on its own.
NextStream ==
  \/ getStreamUrl_call
  \/ getStreamUrl_search
  \/ getStreamUrl_streams

InitStream == Init /\ variant = "pool"

SpecStream == InitStream /\ [][NextStream]_vars

\* One run of the playlist generation pipeline after another, on its own.
NextGen ==
  \/ handleAIGenerate_recommend
  \/ handleAIGenerate_search
  \/ handleAIGenerate_build

InitGen == Init /\ variant = "pool"

SpecGen == InitGen /\ [][NextGen]_vars

\* The calls of the two catalog services, on their own.
NextCatalog ==
  \/ Audius_call
  \/ getHost_lookup
  \/ fetchJson_done
  \/ searchSongs_call
  \/ getFeaturedSongs_call

InitCatalog == Init /\ variant = "id"

SpecCatalog == InitCatalog /\ [][NextCatalog]_vars


\* --------------------------------------------------------------- claims
InQueue(id) == \E i \in 1..Len(songs) : songs[i].id = id

\* C1 (as claimed): in the pool-based App, when the resolution started for
\* a song A succeeds while another song is current, currentSong and the
\* element's src stay as they are.
C1_StaleSuccessDiscarded ==
  [][(variant = "pool" /\ lastOp' = "resolved"
        /\ currentSong # NoSong /\ lastArg' # currentSong.id)
     => (currentSong' = currentSong /\ audioSrc' = audioSrc)]_vars

\* C2 (as claimed): in the pool-based App, when the resolution started for
\* a song A ends without a URL while another song is current, usingPreview
\* and isPlaying stay as they are.
C2_StaleFailureDiscarded ==
  [][(variant = "pool" /\ lastOp' = "notfound"
        /\ currentSong # NoSong /\ lastArg' # currentSong.id)
     => (usingPreview' = usingPreview /\ isPlaying' = isPlaying)]_vars

\* C3: in the id-keyed App a URL that arrives is written into currentSong
\* only when the request is the one of the song now current (same id, not
\* cancelled), and then it is StreamUrl of that id; an arrival for another
\* id changes neither currentSong nor the element's src; and whenever
\* currentSong is replaced, every request started before is cancelled.
C3_AutoResolveGuard ==
  [][variant = "id" =>
       /\ (lastOp' = "resolved" /\ currentSong' # currentSong)
            => /\ currentSong # NoSong /\ currentSong.id = lastArg'
               /\ [id |-> lastArg', cancelled |-> FALSE] \in requests
               /\ currentSong' = [currentSong EXCEPT !.audioUrl = StreamUrl(lastArg')]
       /\ (lastOp' = "resolved" /\ lastArg' # currentSong.id)
            => (currentSong' = currentSong /\ audioSrc' = audioSrc)
       /\ (lastOp' # "resolved" /\ currentSong' # currentSong)
            => \A r \in requests : r \in requests' => r.cancelled
     ]_vars

\* C3 witness: a URL arrived for a song that is no longer current.
C3_Witness ==
  /\ variant = "id" /\ lastOp = "resolved"
  /\ currentSong # NoSong /\ currentSong.id # lastArg

\* C4 (as claimed): pool-based App; the resolution of the current, unresolved,
\* non-local song T ends without a URL while intent is still playing.  With a
\* previewUrl the result is usingPreview and playing, without one paused and
\* not usingPreview; T stays current and isResolvingAudio is false.
C4_FallbackPolicy ==
  [][(variant = "pool" /\ lastOp' = "notfound"
        /\ currentSong.id = lastArg' /\ isPlaying
        /\ ~currentSong.isLocal /\ ~HasUrl(currentSong.audioUrl))
     => /\ currentSong' = currentSong
        /\ ~isResolvingAudio'
        /\ IF HasUrl(currentSong.previewUrl)
           THEN usingPreview' /\ isPlaying'
           ELSE ~isPlaying' /\ ~usingPreview']_vars

\* C5 (as claimed): pool-based App; an error of the element while isPlaying,
\* not usingPreview and the current song has a previewUrl gives usingPreview,
\* the same current song, src = previewUrl and position 0.
C5_ErrorFallsBackToPreview ==
  [][(variant = "pool" /\ lastOp' = "error"
        /\ isPlaying /\ ~usingPreview /\ HasUrl(currentSong.previewUrl))
     => /\ usingPreview'
        /\ currentSong' = currentSong
        /\ audioSrc' = currentSong.previewUrl
        /\ audioTime' = 0]_vars

\* C6 (as claimed): pool-based App; an error of the element while isPlaying
\* and usingPreview does not keep the preview but makes the next entry of the
\* queue current (queue not empty, current song in it, next entry another
\* song).
C6_SecondErrorSkips ==
  [][(variant = "pool" /\ lastOp' = "error"
        /\ isPlaying /\ usingPreview
        /\ InQueue(currentSong.id)
        /\ songs[NextIndex_pool(songs, currentSong) + 1].id # currentSong.id
        /\ (NeedsNoResolve(songs[NextIndex_pool(songs, currentSong) + 1])
              \/ BagCardinality(pending) < MaxInFlight))
     => /\ currentSong' = songs[NextIndex_pool(songs, currentSong) + 1]
        /\ ~usingPreview']_vars

\* C7: play(X) with X.id the id of the current song only flips isPlaying:
\* no resolution starts, and currentSong, usingPreview, isResolvingAudio and
\* the element's src stay as they are (both Apps).
C7_ReselectToggles ==
  [][(lastOp' = "play" /\ currentSong # NoSong /\ lastArg' = currentSong.id)
     => /\ isPlaying' = ~isPlaying
        /\ currentSong' = currentSong
        /\ usingPreview' = usingPreview
        /\ isResolvingAudio' = isResolvingAudio
        /\ audioSrc' = audioSrc
        /\ pending' = pending
        /\ requests' = requests]_vars

\* C7 witness: the current song was selected again and playback is paused.
C7_Witness ==
  /\ lastOp = "play" /\ currentSong # NoSong /\ lastArg = currentSong.id
  /\ ~isPlaying

\* C8: no getStreamUrl call is ever in flight for a local song (both Apps).
C8_LocalNeverResolved ==
  /\ \A s \in BagToSet(pending) : ~s.isLocal
  /\ \A r \in requests : \A f \in LocalFiles : r.id # f.id

\* C8 witness: a local song was made current by navigation and plays.
C8_Witness ==
  /\ currentSong.isLocal /\ isPlaying
  /\ lastOp \in {"next", "prev", "ended"}
  /\ audioCmd = "play"

C10_PlayNewTrack ==
  [][(variant = "pool" /\ lastOp' = "play" /\ lastArg' # currentSong.id)
     => /\ currentSong'.id = lastArg'
        /\ \/ \E i \in 1..Len(songs) : songs[i] = currentSong'
           \/ \E i \in 1..Len(librarySongs) : librarySongs[i] = currentSong'
        /\ isPlaying'
        /\ ~usingPreview'
        /\ isResolvingAudio' = ~(currentSong'.isLocal \/ currentSong'.audioUrl # NoUrl)
    ]_vars

\* C10 witness: a non-local song that already has a URL was selected while
\* the resolution of another song was still in flight.
C10_Witness ==
  /\ variant = "pool" /\ lastOp = "play"
  /\ currentSong.id = lastArg /\ ~currentSong.isLocal
  /\ HasUrl(currentSong.audioUrl)
  /\ isPlaying /\ ~isResolvingAudio /\ pending # EmptyBag

\* ------------------------------------------------------ queue navigation
\* The ids of the queue are pairwise different.
DistinctIds(q) == \A i, j \in 1..Len(q) : q[i].id = q[j].id => i = j

\* Position (1-based) the spec's navigator moves to from the song with id
\* `id`, present in the queue q: (i+1) mod N for "next" and "ended",
\* (i-1+N) mod N for "prev".
Target(q, id, op) ==
  LET i == FindIndex(q, id)
      N == Len(q)
  IN  (IF op = "prev" THEN (i - 1 + N) % N ELSE (i + 1) % N) + 1

\* C11: both Apps; with a non-empty queue of distinct ids that holds the
\* current song at index i, the skip-forward handler makes queue[(i+1) mod N]
\* current and the skip-back handler queue[(i-1+N) mod N].
C11_Wraparound ==
  [][(lastOp' \in {"next", "prev"} /\ Len(songs) > 0
        /\ DistinctIds(songs) /\ InQueue(currentSong.id))
     => LET t == songs[Target(songs, currentSong.id, lastOp')]
        IN  /\ currentSong'.id = t.id
            /\ t.id # currentSong.id => currentSong' = t]_vars

\* C11 witness: skip-back from the first entry of a queue of three reached
\* the last entry.
C11_Witness ==
  /\ lastOp = "prev" /\ Len(songs) = 3 /\ DistinctIds(songs)
  /\ lastArg = songs[1].id /\ currentSong = songs[3]

\* C12: both Apps; N skips in a row in the same direction, through a queue
\* of N distinct ids that held the current song when the run began, end on
\* the song the run began with.
C12_FullCycle ==
  (lastOp \in {"next", "prev"} /\ Len(songs) > 0 /\ navRun = Len(songs)
     /\ DistinctIds(songs) /\ InQueue(navStart))
  => currentSong.id = navStart

\* C12 witness: three skips forward through a queue of three came back to
\* the song they began with.
C12_Witness ==
  /\ lastOp = "next" /\ navRun = 3 /\ Len(songs) = 3 /\ DistinctIds(songs)
  /\ InQueue(navStart) /\ currentSong.id = navStart

\* C13 (as claimed): both Apps; with a non-empty queue that does not hold the
\* current song's id, skip-forward makes queue[1 mod N] current and skip-back
\* queue[(0-1+N) mod N].
C13_NotFoundIndex ==
  [][(lastOp' \in {"next", "prev"} /\ currentSong # NoSong
        /\ Len(songs) > 0 /\ ~InQueue(currentSong.id))
     => LET N == Len(songs)
            j == IF lastOp' = "next" THEN 1 % N ELSE (0 - 1 + N) % N
        IN  currentSong' = songs[j + 1]]_vars

\* C14 (as claimed): both Apps; with an empty queue skip-forward and skip-back
\* leave currentSong, the queue, isPlaying, usingPreview and isResolvingAudio
\* as they are.
C14_EmptyQueueNoOp ==
  [][(lastOp' \in {"next", "prev"} /\ Len(songs) = 0)
     => /\ currentSong' = currentSong
        /\ songs' = songs
        /\ isPlaying' = isPlaying
        /\ usingPreview' = usingPreview
        /\ isResolvingAudio' = isResolvingAudio]_vars

\* C15: both Apps; 'ended' for the current song at index i of a non-empty
\* queue makes queue[(i+1) mod N] current, with usingPreview true or false.
C15_EndedAdvances ==
  [][(lastOp' = "ended" /\ Len(songs) > 0 /\ InQueue(currentSong.id))
     => LET t == songs[Target(songs, currentSong.id, "ended")]
        IN  /\ currentSong'.id = t.id
            /\ t.id # currentSong.id => currentSong' = t]_vars

\* C15 witness: the element ended while the preview was its source, and the
\* next entry of the queue, another song, became current.
C15_Witness ==
  /\ lastOp = "ended" /\ lastUp /\ InQueue(lastArg)
  /\ currentSong.id # lastArg
  /\ currentSong = songs[Target(songs, lastArg, "ended")]

\* ----------------------------------------------------------- getStreamUrl
\* C16 (as claimed): a completed getStreamUrl call returns a usable URL only
\* as the url of the stream selected at the instance it stopped at (every
\* earlier instance having failed), and returns no URL only when the loop
\* stands at the last instance of the pool.
C16_FirstUsableOrExhausted ==
  (rsPhase = "done" /\ rsResult.kind = "returned")
  => IF HasUrl(rsResult.url)
     THEN rsPick > 0 /\ rsResult.url = rsList[rsPick].url
     ELSE rsPos = MaxInstances

\* C17: a getStreamUrl call never completes with an exception: whatever the
\* fetches and the bodies of the instances come to, it is pending or has
\* returned a URL or none.
C17_NeverRaises ==
  /\ rsResult.kind \in {"pending", "returned"}
  /\ rsPhase = "done" <=> rsResult.kind = "returned"

\* C17 witness: at the last instance the selection threw on a stream without
\* mimeType, and the call returned no URL.
C17_Witness ==
  /\ rsPhase = "done" /\ rsPos = MaxInstances
  /\ BestStreamThrows(rsList)
  /\ rsResult = Returned(NoUrl)

\* C18: the stream selected from a non-empty audioStreams list is the first
\* whose mimeType holds mp4 or m4a if there is one, else the first whose
\* mimeType holds webm if there is one, else the first of the list.
C18_StreamSelection ==
  rsPick > 0 =>
    LET IsMp4(i) == rsList[i].mimeType \in {"audio/mp4", "audio/x-m4a"}
        IsWebm(i) == rsList[i].mimeType = "audio/webm"
    IN  /\ rsPick \in 1..Len(rsList)
        /\ IF \E i \in 1..Len(rsList) : IsMp4(i)
           THEN IsMp4(rsPick) /\ \A j \in 1..(rsPick - 1) : ~IsMp4(j)
           ELSE IF \E i \in 1..Len(rsList) : IsWebm(i)
                THEN IsWebm(rsPick) /\ \A j \in 1..(rsPick - 1) : ~IsWebm(j)
                ELSE rsPick = 1

\* C18 witness: of webm, an unknown type and mp4, in this order, the mp4
\* stream was selected and its url returned.
C18_Witness ==
  /\ Len(rsList) = 3 /\ rsPick = 3
  /\ rsList[1].mimeType = "audio/webm"
  /\ rsList[2].mimeType = "audio/ogg"
  /\ rsList[3].mimeType = "audio/mp4"
  /\ rsResult = Returned(StreamUrl(3))

\* ------------------------------------------------------------- the sink
\* C19 (as claimed): both Apps; once any operation has been reconciled, the
\* last command given to the element is play() exactly when isPlaying, no
\* resolution is in flight and the element has a source; in every other case
\* it is not play().
C19_SinkSynchronized ==
  lastOp # "init" =>
    (audioCmd = "play" <=> (isPlaying /\ ~isResolvingAudio /\ HasUrl(audioSrc)))

\* C20 (as claimed): both Apps; the element's src is currentSong.audioUrl if
\* present, else currentSong.previewUrl if usingPreview, else unset, and
\* never a URL of another song.
C20_Original ==
  /\ audioSrc = IF HasUrl(currentSong.audioUrl) THEN currentSong.audioUrl
                ELSE IF usingPreview THEN currentSong.previewUrl ELSE NoUrl
  /\ HasUrl(audioSrc) => audioSrc.id = currentSong.id

\* C20 (amended): both Apps; the element's src is currentSong.previewUrl if
\* usingPreview and that previewUrl is present, else currentSong.audioUrl if
\* present, else unset, and never a URL of another song.
C20_SinkSource ==
  /\ audioSrc = IF usingPreview /\ HasUrl(currentSong.previewUrl)
                THEN currentSong.previewUrl
                ELSE IF HasUrl(currentSong.audioUrl) THEN currentSong.audioUrl
                ELSE NoUrl
  /\ HasUrl(audioSrc) => audioSrc.id = currentSong.id

\* C20 witness: after an error of the resolved stream the preview of the
\* current song is the source although the song has its audioUrl.
C20_Witness ==
  /\ lastOp = "error" /\ usingPreview /\ ~lastUp
  /\ HasUrl(currentSong.audioUrl)
  /\ audioSrc = currentSong.previewUrl /\ HasUrl(audioSrc)

\* ------------------------------------------------------------- liveness
\* C21: pool-based App, every getStreamUrl call settling in the end; after
\* handlePlaySong made a non-local song without audioUrl current and set
\* isResolvingAudio, a state follows in which isResolvingAudio is false and
\* the current song has its audioUrl, or usingPreview is set, or isPlaying
\* is false.
C21_ResolvingEnds ==
  (isResolvingAudio /\ lastOp \in {"play", "next", "prev", "ended", "error"}
     /\ ~currentSong.isLocal /\ ~HasUrl(currentSong.audioUrl))
  ~> (~isResolvingAudio
        /\ (HasUrl(currentSong.audioUrl) \/ usingPreview \/ ~isPlaying))

\* C21 witness: the resolution of the current song, which has no preview,
\* ended without a URL and playback is paused as unavailable.
C21_Witness ==
  /\ variant = "pool" /\ lastOp = "notfound" /\ currentSong.id = lastArg
  /\ ~HasUrl(currentSong.previewUrl) /\ ~HasUrl(currentSong.audioUrl)
  /\ ~isResolvingAudio /\ ~isPlaying /\ ~usingPreview

\* C22: the generated playlist holds, in the order of the titles, the first
\* search result of each of the first five titles whose search returned at
\* least one result; titles without a result are skipped, and the playlist
\* never has more than 5 entries.
C22_GeneratedPlaylist ==
  (aiPhase = "done" /\ aiRec.kind = "returned"
     /\ \A i \in 1..Len(aiResults) : aiResults[i].kind = "returned")
  => LET titles == aiRec.value
         K == {i \in 1..Len(aiResults) : Len(aiResults[i].value) > 0}
         Rank(i) == Cardinality({j \in K : j <= i})
     IN  /\ Len(aiResults) = (IF Len(titles) < 5 THEN Len(titles) ELSE 5)
         /\ Len(aiPlaylist) = Cardinality(K)
         /\ Len(aiPlaylist) <= 5
         /\ \A i \in K : aiPlaylist[Rank(i)] = aiResults[i].value[1]
C22_Witness ==
  /\ aiPhase = "done"
  /\ aiRec = Ok(ProviderTitles(5))
  /\ Len(aiResults) = 5
  /\ aiResults[1].value = <<Hit(1, 1), Hit(1, 2)>>
  /\ aiResults[2].value = <<>>
  /\ aiResults[3].value = <<Hit(3, 1)>>
  /\ aiResults[4].value = <<>>
  /\ aiResults[5].value = <<Hit(5, 1), Hit(5, 2)>>
  /\ aiPlaylist = <<Hit(1, 1), Hit(3, 1), Hit(5, 1)>>

\* C24: getAIRecommendations never raises, and when there is no client, the
\* request fails or the response cannot be parsed it returns the static
\* list of five titles.
C24_RecommendationsNeverRaise ==
  /\ aiRec.kind # "raised"
  /\ aiOut \in {"noclient", "throw", "badjson"}
       => aiRec = Ok(StaticTitles) /\ Len(StaticTitles) = 5
C24_Witness ==
  /\ aiOut = "badjson"
  /\ aiRec = Ok(StaticTitles)
  /\ aiPhase = "search"

\* C23 (as claimed): when playlist generation ends without a match for any
\* title, the queue is replaced by the result of getFeaturedSongs(), and
\* currentSong and isPlaying stay as they are.
C23_FallbackToTrending ==
  [][lastOp' \in {"trending", "nomatch"}
       => /\ lastOp' = "trending"
          /\ songs' \in SearchResults_id
          /\ currentSong' = currentSong
          /\ isPlaying' = isPlaying]_vars

\* C25 (as claimed): searchSongs and getFeaturedSongs, of either catalog
\* service, never raise, and after a provider error (network failure,
\* timeout, bad status, malformed payload) they return an empty list or the
\* static fallback songs.
C25_CatalogNeverRaises ==
  catLast.op \in {"searchSongs", "searchSongs('')", "getFeaturedSongs",
                  "iTunes searchSongs", "iTunes searchSongs('')",
                  "iTunes getFeaturedSongs"}
  => /\ catLast.result.kind = "returned"
     /\ catLast.outcome \in {"throw", "notok", "badjson", "nodata", "notarray"}
          => catLast.result.value \in {<<>>, FALLBACK_SONGS, FALLBACK_SONGS_audius}

C26_ErrorWhilePaused ==
  [][(lastOp' = "error" /\ ~isPlaying)
       => /\ currentSong' = currentSong
          /\ usingPreview' = usingPreview
          /\ isPlaying' = isPlaying
          /\ skipTimers' = skipTimers]_vars

\* C27 (as claimed): an 'error' of the element while isPlaying is true and
\* no preview can take over (no previewUrl, or the preview is in use)
\* leaves the current song in place and schedules one skip; the skip runs
\* as a later step and makes the next song of the queue current.
C27_ErrorSkipsAfterDelay ==
  [][/\ (lastOp' = "error" /\ isPlaying
           /\ (~HasUrl(currentSong.previewUrl) \/ usingPreview))
        => /\ currentSong' = currentSong
           /\ skipTimers' = skipTimers + 1
     /\ (lastOp' = "timer" /\ InQueue(currentSong.id) /\ DistinctIds(songs))
        => currentSong'.id = Target(songs, currentSong.id, "next")]_vars

C30_MediaSessionProjection ==
  IF hasMediaSession
  THEN /\ msPlaybackState \in {"playing", "paused"}
       /\ msPlaybackState = "playing" <=> isPlaying
       /\ msMetadata = currentSong.id
  ELSE msPlaybackState = "none" /\ msMetadata = 0
C30_Witness ==
  /\ hasMediaSession
  /\ lastOp = "next"
  /\ isPlaying
  /\ msPlaybackState = "playing"
  /\ currentSong.id = 2
  /\ msMetadata = 2

\* C31 (as claimed): in the pool-based App, isResolvingAudio is true as long
\* as a getStreamUrl call started for the current song has not completed;
\* the completion of a call started for an earlier song does not clear it.
C31_ResolvingWhileInFlight ==
  (variant = "pool" /\ \E s \in BagToSet(pending) : s.id = currentSong.id)
  => isResolvingAudio

\* C32 (as claimed): after handleNext, handlePrev or an 'ended' event on a
\* non-empty queue isPlaying is true, also when the song navigated to has
\* the id of the current song.
C32_NavigationPlays ==
  [][(lastOp' \in {"next", "prev", "ended"} /\ Len(songs) > 0)
       => isPlaying']_vars

\* C33 (as claimed): in the id-keyed App the skip that onError schedules for
\* a song applies to that song only: when another song has become current
\* before the timer fires, the firing leaves currentSong as it is; each
\* firing uses up one scheduled skip.
C33_SkipAppliesToErroredSong ==
  [][lastOp' = "timer"
       => /\ skipTimers' = skipTimers - 1
          /\ currentSong.id # timerFor => currentSong' = currentSong]_vars

\* C34 (as claimed): both Apps; as many skips forward in a row as the queue
\* has entries, begun with a current song that is in the queue, have made
\* the song at every position of the queue current, also when the queue
\* holds an id twice because handleAddToQueue appended a song already in it.
C34_NextReachesAll ==
  (lastOp = "next" /\ Len(songs) > 0 /\ navRun = Len(songs)
     /\ InQueue(navStart))
  => \A i \in 1..Len(songs) : songs[i].id \in navSeen

\* C35 (as claimed): both Apps; when handleAIGenerate has built a non-empty
\* newPlaylist, the queue begins with newPlaylist[0], currentSong is
\* newPlaylist[0] and isPlaying is true, whatever was current and whether
\* it was playing before, also when newPlaylist[0] has the id of the song
\* that was current.
C35_GeneratedPlays ==
  [][lastOp' = "generated"
       => /\ Len(songs') > 0
          /\ songs'[1].id = lastArg'
          /\ currentSong'.id = lastArg'
          /\ isPlaying']_vars

\* C36 (as claimed): lyrics held by a song were fetched for that song: a
\* getLyrics result that arrives after the user has moved on to another
\* song is not attached to that other song, and while the full player shows
\* a song that can have lyrics and has none, a getLyrics call for it is out
\* or has returned.
C36_LyricsBelongToSong ==
  /\ currentSong.lyrics \in {0, currentSong.id}
  /\ \A i \in 1..Len(songs) : songs[i].lyrics \in {0, songs[i].id}
  /\ (isPlayerFull /\ currentSong # NoSong /\ ~currentSong.isLocal
        /\ currentSong.lyrics = 0)
     => \/ currentSong.id \in lyricsDone
        \/ currentSong.id \in BagToSet(lyricCalls)

\* C37 (as claimed): once cachedHost has been set it never changes, and
\* every getHost call that returns afterwards returns that host, also when
\* several getHost calls were started while the cache was still empty.
C37_CachedHostStable ==
  [][cachedHost # NoHost
       => /\ cachedHost' = cachedHost
          /\ hostLast' # hostLast => hostLast'.ret = Ok(cachedHost)]_vars

\* C38: both Apps; isPlaying implies that there is a current song, and a
\* current song, once set, is never replaced by none, whatever handlers,
\* element events, timers and getStreamUrl completions follow.
C38_CurrentSongStays ==
  /\ [](isPlaying => currentSong # NoSong)
  /\ [][currentSong # NoSong => currentSong' # NoSong]_vars

\* C38 witness: a skip forward, from a song that a search had removed from
\* the queue, left a current song, playing.
C38_Witness ==
  /\ lastOp = "next" /\ Len(songs) > 0 /\ ~InQueue(lastArg)
  /\ isPlaying /\ currentSong # NoSong

\* C39 (as claimed): id-keyed App; a back press closes the full player when
\* it is open, else shows the home view when another view is shown, else
\* arms the exit; exitApp is called only by a back press on the home view
\* with the player closed that comes less than 2000 ms after the press
\* that armed the exit, so a single back press never exits, whatever
\* changes of view and openings and closings of the player came before.
C39_BackButton ==
  [][lastOp' = "back"
       => IF isPlayerFull
          THEN /\ ~isPlayerFull' /\ view' = view
               /\ lastBackPress' = lastBackPress /\ ~exited'
          ELSE IF view # "home"
          THEN /\ view' = "home" /\ ~isPlayerFull'
               /\ lastBackPress' = lastBackPress /\ ~exited'
          ELSE /\ view' = view /\ ~isPlayerFull'
               /\ IF clock - lastBackPress < BackWindow
                  THEN exited'
                  ELSE ~exited' /\ lastBackPress' = clock]_vars

\* The title without its annotations in parentheses, each from its '(' to
\* the next ')', and without the credit that "feat." or "ft." begins.
RECURSIVE DropAnnotations(_, _)
DropAnnotations(t, inside) ==
  IF t = <<>> THEN <<>>
  ELSE IF Head(t) = "(" THEN DropAnnotations(Tail(t), TRUE)
  ELSE IF Head(t) = ")" THEN DropAnnotations(Tail(t), FALSE)
  ELSE IF inside THEN DropAnnotations(Tail(t), TRUE)
  ELSE <<Head(t)>> \o DropAnnotations(Tail(t), FALSE)

DropCredit(t) ==
  LET credits == {i \in 1..Len(t) : t[i] \in {"feat.", "ft."}}
      first == CHOOSE i \in credits : \A j \in credits : i <= j
  IN  IF credits # {} THEN SubSeq(t, 1, first - 1) ELSE t

\* The parentheses of t are paired and not nested.
RECURSIVE Paired(_, _)
Paired(t, inside) ==
  IF t = <<>> THEN ~inside
  ELSE IF Head(t) = "(" THEN ~inside /\ Paired(Tail(t), TRUE)
  ELSE IF Head(t) = ")" THEN inside /\ Paired(Tail(t), FALSE)
  ELSE Paired(Tail(t), inside)

\* C40 (as claimed): the query getStreamUrl builds holds the title without
\* its annotations in parentheses and without a trailing "feat." or "ft."
\* credit, and the first of the comma-joined artists.
C40_CleanQuery ==
  (rsQuery # NoQuery /\ Paired(title, FALSE))
  => rsQuery = <<DropCredit(DropAnnotations(title, FALSE)), artist[1],
                 "official audio">>

=============================================================================
